---- MODULE Spec2Model ----
(***************************************************************************)
(* Model of the WebSocket transport (src/src/websocket-transport.ts), of   *)
(* the MCPServer that owns it (src/unnamed/part_001) and of the lifecycle  *)
(* controller that owns the MCPServer (src/unnamed/part_000).              *)
(*                                                                         *)
(* One step of the model is one run-to-completion callback of the Node     *)
(* event loop: a socket event handler, a timer callback, a promise         *)
(* continuation or a command.  The `ws` socket library is the environment: *)
(* it decides which event a socket emits next.                             *)
(***************************************************************************)
EXTENDS Integers, Sequences, FiniteSets, TLC

\* ---- bounds of the model ------------------------------------------------
MaxSockets == 2   \* socket objects of one transport that are alive at once
MaxMsgs == 2      \* send() calls made on one transport instance
MaxCmds == 1      \* operator clicks that wait in the command queue
MaxTimers == 2    \* reconnect timers that are pending at once
MaxSignals == 2   \* give-up signals one transport raises
MaxDocLines == 4     \* lines of a document handed to the search-replace engine
MaxSearchLines == 3  \* lines of a search text
MaxListings == 2     \* listing calls in one behaviour
MaxTimedReads == 2   \* directories entered before the listing timeout strikes

\* ---- program constants --------------------------------------------------
maxReconnectAttempts == 20
initialReconnectDelay == 1000

Sockets == 1..MaxSockets

VARIABLES
  tp,             \* the fields of the current WebSocketTransport instance
  sock,           \* the socket objects the transport created
  wire,           \* the messages written to a socket, in order
  nextId,         \* number of send() calls made on this transport so far
  serverEnabled,  \* extension.ts: serverEnabled
  mcpServer,      \* extension.ts: mcpServer is defined
  srv,            \* the MCPServer: "none", "started" or "stopping" (in stop())
  mcp,            \* the MCPServer: its isConnected field, where start() is
  cmds,           \* toggleServer commands waiting to run, with their origin
  last,           \* the callback that ran last (observation only)
  patch,          \* a call of the search-replace engine: inputs and outcome
  listing,        \* the listing calls: tree, ignore file, cache, last call
  tool            \* the search_replace tool: the stores and the calls under way

\* The variables of the bridge (transport, MCPServer, lifecycle controller)
\* and those of the tools.
bridgeVars ==
  <<tp, sock, wire, nextId, serverEnabled, mcpServer, srv, mcp, cmds, last>>
toolVars == <<patch, listing, tool>>
vars ==
  <<tp, sock, wire, nextId, serverEnabled, mcpServer, srv, mcp, cmds, last,
    patch, listing, tool>>

\* No call of the search-replace engine is under way.
NoPatch == [ phase |-> "idle" ]
NoListing == [ phase |-> "idle" ]
NoTool == [ phase |-> "idle" ]

\* A freshly constructed transport (field initialisers of the class).
\* timers: reconnect callbacks handed to setTimeout and not yet run.
\* signals: how often the give-up branch raised the error notification and
\* the toggleServer command.  onmessage: the callback is set.  handlers:
\* whose callbacks onclose and onerror hold: "none", those of the MCPServer
\* ("server"), or those Protocol.connect of the MCP SDK has assigned ("sdk").
NewTransport ==
  [ ws |-> 0, connected |-> FALSE, messageQueue |-> <<>>,
    reconnectAttempts |-> 0, reconnectDelay |-> initialReconnectDelay,
    isReconnecting |-> FALSE, explicitlyClosed |-> FALSE,
    timers |-> 0, signals |-> 0, onmessage |-> FALSE, handlers |-> "none" ]

\* A freshly constructed MCPServer: isConnected is false; start() is under
\* way ("connecting") or has returned ("done").
NewServer == [ isConnected |-> FALSE, start |-> "connecting" ]

\* MCPServer.start: "Set up transport event handlers"
withServerHandlers(st) == [st EXCEPT !.handlers = "server"]

\* MCPServer.start: "Connect MCP server to transport".  Protocol.connect
\* assigns onclose and onerror of the transport.
withSdkHandlers(st) == [st EXCEPT !.onmessage = TRUE, !.handlers = "sdk"]

\* The MCPServer after the transport called onclose or onerror.  The
\* callbacks MCPServer.start has set do "this.isConnected = false".  Those
\* Protocol.connect has set replace them in some releases of the SDK that
\* the dependency range "^1.10.1" admits and call them first in others: the
\* assignment happens or not.
afterCallback(m, st) ==
  IF st.handlers = "server" THEN {[m EXCEPT !.isConnected = FALSE]}
  ELSE IF st.handlers = "sdk" THEN {m, [m EXCEPT !.isConnected = FALSE]}
  ELSE {m}

\* WebSocketTransport.isConnected()
isConnected(st, sk) ==
  st.connected /\ st.ws # 0 /\ sk[st.ws].readyState = "OPEN"

\* MCPServer.isConnectedToClient()
isConnectedToClient(m, st, sk) == m.isConnected /\ isConnected(st, sk)

\* A socket slot that holds no live socket.
NoSocket ==
  [ readyState |-> "CLOSED", pending |-> "none", promise |-> "none",
    caller |-> "none" ]

\* ---- WebSocketTransport -------------------------------------------------

\* reconnect(): guarded by isReconnecting; counts the attempt; gives up above
\* the maximum; otherwise schedules start() and doubles the delay.
reconnect(st) ==
  IF st.isReconnecting THEN st
  ELSE LET n == st.reconnectAttempts + 1 IN
    IF n > maxReconnectAttempts
    THEN [st EXCEPT !.reconnectAttempts = n, !.isReconnecting = FALSE,
                    !.signals = @ + 1]
    ELSE [st EXCEPT !.reconnectAttempts = n, !.isReconnecting = TRUE,
                    !.timers = @ + 1, !.reconnectDelay = @ * 2]

\* A timer armed with the delay after doubling.
reconnectTimeoutDoubled(st) == st.reconnectDelay * 2

\* The delay reconnect() hands to setTimeout: the delay field as it is when
\* reconnect() is entered (the doubling comes after the setTimeout call).
reconnectTimeout(st) == st.reconnectDelay

\* A close handler that does not look at the explicit-close flag.
onSocketCloseNoFlag(st) ==
  reconnect([st EXCEPT !.connected = FALSE, !.ws = 0])

\* The "close" handler of a socket.
onSocketClose(st) ==
  LET c == [st EXCEPT !.connected = FALSE, !.ws = 0] IN
  IF ~c.explicitlyClosed THEN reconnect(c) ELSE c

\* The "error" handler of a socket: TRUE when it rejects the start() promise
\* (the transport fields themselves are left as they are).
onSocketErrorRejects(st) == ~st.connected

\* An error handler that gives the connection up.
onSocketErrorDisconnects(st) == [st EXCEPT !.connected = FALSE]

\* The "error" handler: the fields after it ran.  The only assignment is
\* this.connected = false in the branch where connected is false already.
onSocketError(st) ==
  IF ~st.connected THEN [st EXCEPT !.connected = FALSE] ELSE st

\* TRUE when the "error" handler calls onerror: it does in both branches.
onSocketErrorReports(st) == IF ~st.connected THEN TRUE ELSE TRUE

\* Inbound frames, by what the message handler can tell apart: text that is
\* no JSON, the JSON value null (reading a property of it throws), JSON
\* without the tag "2.0", and a JSON-RPC 2.0 message.
Frames == {"garbage", "null", "other", "rpc"}

\* A message handler that does not test the protocol tag.
onSocketMessageNoTagTest(st, f, throws) ==
  IF f \in {"garbage", "null"} THEN "discarded"
  ELSE IF ~st.onmessage THEN "discarded"
  ELSE IF throws THEN "threw"
  ELSE "delivered"

\* A message handler without the try/catch around the onmessage call and
\* without the outer one.
onSocketMessageUncaught(st, f, throws) ==
  IF f \in {"garbage", "null"} THEN "escaped"
  ELSE IF f # "rpc" THEN "discarded"
  ELSE IF ~st.onmessage THEN "discarded"
  ELSE IF throws THEN "escaped"
  ELSE "delivered"

\* The "message" handler, for frame f and an onmessage callback that throws
\* or not: "delivered" (onmessage ran and returned), "threw" (onmessage ran,
\* its exception was caught and logged), "discarded" (onmessage not called:
\* JSON.parse or the property read threw into the outer catch, the tag is
\* not "2.0", or no callback is set).  No path calls onerror and no path
\* lets an exception escape ("escaped").
onSocketMessage(st, f, throws) ==
  IF f \in {"garbage", "null"} THEN "discarded"
  ELSE IF f # "rpc" THEN "discarded"
  ELSE IF ~st.onmessage THEN "discarded"
  ELSE IF throws THEN "threw"
  ELSE "delivered"

\* The socket after the "message" listener ran: an exception that escapes the
\* listener surfaces in the library, which fails the connection.
messageListenerDone(sk, s, outcome) ==
  IF outcome = "escaped"
  THEN [sk EXCEPT ![s].readyState = "CLOSING"]
  ELSE sk

\* What this.ws?.send() does with one message, by the state of this.ws:
\* "write" on an OPEN socket, "drop" without a socket or on a closing one
\* (ws discards silently when no callback is given), "throw" on a CONNECTING
\* one.
wsSend(st, sk) ==
  IF st.ws = 0 THEN "drop"
  ELSE IF sk[st.ws].readyState = "OPEN" THEN "write"
  ELSE IF sk[st.ws].readyState = "CONNECTING" THEN "throw"
  ELSE "drop"

\* An open handler that forgets to reset the backoff delay.
onSocketOpenKeepDelay(st, sk) ==
  [st EXCEPT !.connected = TRUE, !.reconnectAttempts = 0,
             !.isReconnecting = FALSE, !.messageQueue = <<>>]

\* The "open" handler: the fields after it ran.
onSocketOpen(st, sk) ==
  LET o == [st EXCEPT !.connected = TRUE, !.reconnectAttempts = 0,
                      !.reconnectDelay = initialReconnectDelay,
                      !.isReconnecting = FALSE] IN
  IF wsSend(st, sk) = "throw" /\ st.messageQueue # <<>>
  THEN [o EXCEPT !.messageQueue = Tail(st.messageQueue)]
  ELSE [o EXCEPT !.messageQueue = <<>>]

\* The messages the "open" handler writes, in order.
onSocketOpenWrites(st, sk) ==
  IF wsSend(st, sk) = "write"
  THEN st.messageQueue
  ELSE <<>>

\* TRUE when the "open" handler reaches resolve().
onSocketOpenResolves(st, sk) ==
  ~(wsSend(st, sk) = "throw" /\ st.messageQueue # <<>>)

\* send(): queue when there is no socket or it is not OPEN.
sendQueues(st, sk) == st.ws = 0 \/ sk[st.ws].readyState # "OPEN"

\* A send() that puts a queued message at the front of the queue.
sendPrepend(st, sk, m) ==
  IF sendQueues(st, sk)
  THEN [st EXCEPT !.messageQueue = <<m>> \o @]
  ELSE st

send(st, sk, m) ==
  IF sendQueues(st, sk)
  THEN [st EXCEPT !.messageQueue = Append(@, m)]
  ELSE st

\* close(): the fields after it ran.
close(st) ==
  IF st.ws # 0
  THEN [st EXCEPT !.explicitlyClosed = TRUE, !.connected = FALSE, !.ws = 0]
  ELSE [st EXCEPT !.explicitlyClosed = TRUE]

\* ws.close() of the library on the socket close() holds: a CONNECTING socket
\* aborts its handshake (error and close are emitted on the next tick), an
\* OPEN one starts the closing handshake.
closeSockets(st, sk) ==
  IF st.ws = 0 THEN sk
  ELSE IF sk[st.ws].readyState = "CONNECTING"
       THEN [sk EXCEPT ![st.ws].readyState = "CLOSING",
                       ![st.ws].pending = "abort"]
  ELSE IF sk[st.ws].readyState = "OPEN"
       THEN [sk EXCEPT ![st.ws].readyState = "CLOSING"]
  ELSE sk

\* ---- scheduling of the event loop ---------------------------------------

FreeSlot(s) == sock[s].readyState = "CLOSED" /\ sock[s].promise = "none"

\* process.nextTick callbacks run first, promise continuations next, then
\* timers and socket events.
TickPending == \E s \in Sockets : sock[s].pending = "abort"
MicrotaskPending ==
  \E s \in Sockets : sock[s].promise \in {"resolved", "rejected"}
Idle == ~TickPending /\ ~MicrotaskPending

\* A slot whose promise has no continuation left forgets its caller.
Forget(sk) ==
  [s \in Sockets |->
     IF sk[s].promise = "none" THEN [sk[s] EXCEPT !.caller = "none"] ELSE sk[s]]

\* start(): a new socket in slot s becomes this.ws; the caller awaits it.
startIn(st, s) == [st EXCEPT !.ws = s]
startSock(sk, s, who) ==
  [sk EXCEPT ![s] = [ readyState |-> "CONNECTING", pending |-> "none",
                      promise |-> "pending", caller |-> who ]]

\* The toggleServer commands the give-up branch issued during a step.
Issued(old, new) ==
  [i \in 1..(new.signals - old.signals) |-> "giveup"]

\* The transport is garbage: no socket, timer or continuation of it is left.
Quiescent ==
  /\ tp.timers = 0
  /\ \A s \in Sockets : FreeSlot(s)

BridgeInit ==
  /\ tp = NewTransport
  /\ sock = [s \in Sockets |-> NoSocket]
  /\ wire = <<>>
  /\ nextId = 0
  /\ serverEnabled = FALSE
  /\ mcpServer = FALSE
  /\ srv = "none"
  /\ mcp = NewServer
  /\ cmds = <<>>
  /\ last = "init"

Init ==
  /\ BridgeInit
  /\ patch = NoPatch
  /\ listing = NoListing
  /\ tool = NoTool

\* ---- lifecycle controller (extension.ts) and MCPServer ------------------

\* The operator clicks the status bar item: the toggleServer command is
\* issued.
OperatorClick ==
  /\ UNCHANGED toolVars
  /\ last' = "OperatorClick"
  /\ Idle
  /\ Len(cmds) < MaxCmds
  /\ cmds' = Append(cmds, "operator")
  /\ UNCHANGED <<tp, sock, wire, nextId, serverEnabled, mcpServer, srv, mcp>>

\* toggleServerState, enabling branch: without an API key the flag is put
\* back; without a server a new MCPServer is made and started, which
\* constructs a new transport and calls its start().
ToggleOn(hasKey) ==
  /\ ~serverEnabled
  /\ IF ~hasKey
     THEN /\ serverEnabled' = FALSE
          /\ UNCHANGED <<tp, sock, wire, nextId, mcpServer, srv, mcp>>
     ELSE IF mcpServer
     THEN /\ serverEnabled' = TRUE
          /\ UNCHANGED <<tp, sock, wire, nextId, mcpServer, srv, mcp>>
     ELSE /\ Quiescent
          /\ serverEnabled' = TRUE
          /\ mcpServer' = TRUE
          /\ srv' = "started"
          /\ mcp' = NewServer
          /\ tp' = startIn(withServerHandlers(NewTransport), 1)
          /\ sock' = startSock([s \in Sockets |-> NoSocket], 1, "start")
          /\ wire' = <<>>
          /\ nextId' = 0

\* toggleServerState, disabling branch: MCPServer.stop() closes the
\* transport; mcpServer is cleared when the awaits of stop() are over.
ToggleOff ==
  /\ serverEnabled
  /\ serverEnabled' = FALSE
  /\ IF mcpServer
     THEN /\ tp' = close(tp)
          /\ sock' = closeSockets(tp, sock)
          /\ srv' = "stopping"
     ELSE UNCHANGED <<tp, sock, srv>>
  /\ UNCHANGED <<wire, nextId, mcpServer, mcp>>

\* The toggleServer command runs toggleServerState.
RunToggle ==
  /\ UNCHANGED toolVars
  /\ Idle
  /\ cmds # <<>>
  /\ last' = IF Head(cmds) = "giveup" THEN "RunToggleGiveUp" ELSE "RunToggle"
  /\ cmds' = Tail(cmds)
  /\ \/ \E hasKey \in BOOLEAN : ToggleOn(hasKey)
     \/ ToggleOff

\* The awaits of the disabling branch are over: mcpServer = undefined.
StopFinish ==
  /\ UNCHANGED toolVars
  /\ last' = "StopFinish"
  /\ Idle
  /\ srv = "stopping"
  /\ mcpServer' = FALSE
  /\ srv' = "none"
  /\ mcp' = NewServer
  /\ UNCHANGED <<tp, sock, wire, nextId, serverEnabled, cmds>>

\* MCPServer.start continues after `await this.transport.start()` resolved:
\* server.connect(transport) installs its callbacks and calls start() of the
\* transport again (Protocol.connect of the MCP SDK).
StartResolved(s) ==
  /\ UNCHANGED toolVars
  /\ last' = "StartResolved"
  /\ ~TickPending
  /\ sock[s].promise = "resolved"
  /\ sock[s].caller = "start"
  /\ \E n \in Sockets :
       /\ n # s
       /\ FreeSlot(n)
       /\ \A k \in Sockets : (k # s /\ FreeSlot(k)) => n <= k
       /\ tp' = startIn(withSdkHandlers(tp), n)
       /\ sock' = startSock(Forget([sock EXCEPT ![s].promise = "none"]), n, "connect")
  /\ UNCHANGED <<wire, nextId, serverEnabled, mcpServer, srv, mcp, cmds>>

\* MCPServer.start continues after server.connect resolved: it waits one
\* second, sets isConnected and returns.  No socket event and no command
\* falls into that second.
ConnectResolved(s) ==
  /\ UNCHANGED toolVars
  /\ last' = "ConnectResolved"
  /\ ~TickPending
  /\ sock[s].promise = "resolved"
  /\ sock[s].caller = "connect"
  /\ sock' = Forget([sock EXCEPT ![s].promise = "none"])
  /\ mcp' = [ isConnected |-> TRUE, start |-> "done" ]
  /\ UNCHANGED <<tp, wire, nextId, serverEnabled, mcpServer, srv, cmds>>

\* MCPServer.start rethrows the rejection of start() or of connect().
StartRejected(s) ==
  /\ UNCHANGED toolVars
  /\ last' = IF sock[s].caller = "start" THEN "StartRejected"
             ELSE "ConnectRejected"
  /\ ~TickPending
  /\ sock[s].promise = "rejected"
  /\ sock[s].caller \in {"start", "connect"}
  /\ sock' = Forget([sock EXCEPT ![s].promise = "none"])
  /\ UNCHANGED <<tp, wire, nextId, serverEnabled, mcpServer, srv, mcp, cmds>>

\* ---- callers of the transport and socket events -------------------------

\* Bounds of the model: no step leaves more than MaxTimers timers pending
\* or raises the give-up signal more than MaxSignals times.
StepBounded == tp'.timers <= MaxTimers /\ tp'.signals <= MaxSignals

\* The lowest free socket slot.
IsNewSlot(n) == FreeSlot(n) /\ \A k \in Sockets : FreeSlot(k) => n <= k

\* The dispatcher calls send() with the next message.
Send ==
  /\ UNCHANGED toolVars
  /\ last' = "Send"
  /\ Idle
  /\ mcpServer
  /\ nextId < MaxMsgs
  /\ nextId' = nextId + 1
  /\ tp' = send(tp, sock, nextId + 1)
  /\ wire' = IF sendQueues(tp, sock) THEN wire
             ELSE Append(wire, nextId + 1)
  /\ UNCHANGED <<sock, serverEnabled, mcpServer, srv, mcp, cmds>>

\* Socket s reports "open": the library sets readyState to OPEN and runs the
\* open handler, which resolves the promise of the start() call that made s.
SockOpen(s) ==
  /\ UNCHANGED toolVars
  /\ last' = IF sock[s].caller = "timer" THEN "SockOpenReconnect" ELSE "SockOpen"
  /\ Idle
  /\ sock[s].readyState = "CONNECTING"
  /\ LET sk == [sock EXCEPT ![s].readyState = "OPEN"] IN
     /\ tp' = onSocketOpen(tp, sk)
     /\ wire' = wire \o onSocketOpenWrites(tp, sk)
     /\ sock' = Forget([sk EXCEPT ![s].promise =
                   IF onSocketOpenResolves(tp, sk) /\ @ = "pending"
                   THEN (IF sk[s].caller = "timer" THEN "none" ELSE "resolved")
                   ELSE @])
  /\ UNCHANGED <<nextId, serverEnabled, mcpServer, srv, mcp, cmds>>

\* The connection attempt of socket s fails: the library emits "error" and
\* then "close", in the same tick (sync) or with the promise continuation of
\* the rejection in between.
SockConnFail(s, sync) ==
  /\ UNCHANGED toolVars
  /\ last' = "SockConnFail"
  /\ Idle
  /\ sock[s].readyState = "CONNECTING"
  /\ LET rej == onSocketErrorRejects(tp) /\ sock[s].promise = "pending" IN
     IF sync
     THEN /\ tp' = onSocketClose(tp)
          /\ sock' = Forget([sock EXCEPT ![s].readyState = "CLOSED",
                        ![s].promise = IF rej THEN "rejected" ELSE "none"])
     ELSE /\ tp' = tp
          /\ sock' = Forget([sock EXCEPT ![s].readyState = "CLOSING",
                        ![s].pending = "closeSoon",
                        ![s].promise = IF rej THEN "rejected" ELSE @])
  /\ cmds' = cmds \o Issued(tp, tp')
  /\ StepBounded
  /\ mcp' \in afterCallback(mcp, tp)
  /\ UNCHANGED <<wire, nextId, serverEnabled, mcpServer, srv>>

\* The handshake of socket s was aborted by ws.close(): on the next tick the
\* library emits "error" and "close" together.
SockAbort(s) ==
  /\ UNCHANGED toolVars
  /\ last' = "SockAbort"
  /\ sock[s].pending = "abort"
  /\ LET rej == onSocketErrorRejects(tp) /\ sock[s].promise = "pending" IN
     sock' = Forget([sock EXCEPT ![s].readyState = "CLOSED", ![s].pending = "none",
                ![s].promise = IF rej THEN "rejected" ELSE "none"])
  /\ tp' = onSocketClose(tp)
  /\ cmds' = cmds \o Issued(tp, tp')
  /\ StepBounded
  /\ mcp' \in afterCallback(mcp, tp)
  /\ UNCHANGED <<wire, nextId, serverEnabled, mcpServer, srv>>

\* Socket s reports "close": after an error, after ws.close(), or because the
\* connection was lost.  A start() promise that is still pending stays
\* pending for ever.
SockClose(s) ==
  /\ UNCHANGED toolVars
  /\ last' = "SockClose"
  /\ Idle
  /\ sock[s].readyState \in {"OPEN", "CLOSING"}
  /\ tp' = onSocketClose(tp)
  /\ sock' = Forget([sock EXCEPT ![s].readyState = "CLOSED", ![s].pending = "none",
                ![s].promise = "none"])
  /\ cmds' = cmds \o Issued(tp, tp')
  /\ StepBounded
  /\ mcp' \in afterCallback(mcp, tp)
  /\ UNCHANGED <<wire, nextId, serverEnabled, mcpServer, srv>>

\* Socket s reports "error" while it is OPEN; the library may have moved it
\* to CLOSING before (closes).
SockError(s, closes) ==
  /\ UNCHANGED toolVars
  /\ last' = "SockError"
  /\ Idle
  /\ sock[s].readyState = "OPEN"
  /\ LET rej == onSocketErrorRejects(tp) /\ sock[s].promise = "pending" IN
     sock' = Forget([sock EXCEPT ![s].readyState = IF closes THEN "CLOSING" ELSE @,
                ![s].promise = IF rej THEN "rejected" ELSE @])
  /\ tp' = onSocketError(tp)
  /\ mcp' \in afterCallback(mcp, tp)
  /\ UNCHANGED <<wire, nextId, serverEnabled, mcpServer, srv, cmds>>

\* Socket s delivers an inbound frame: the "message" handler runs.
SockMessage(s, f, throws) ==
  /\ UNCHANGED toolVars
  /\ Idle
  /\ sock[s].readyState = "OPEN"
  /\ LET outcome == onSocketMessage(tp, f, throws) IN
     /\ last' = CASE outcome = "delivered" -> "SockMessage"
                  [] outcome = "threw" -> "SockMessageThrew"
                  [] outcome = "escaped" -> "SockMessageEscaped"
                  [] OTHER -> "SockMessageDiscarded"
     /\ sock' = messageListenerDone(sock, s, outcome)
  /\ UNCHANGED <<tp, wire, nextId, serverEnabled, mcpServer, srv, mcp, cmds>>

\* A reconnect timer fires and calls start().  The delay is at least one
\* second, so a "close" that follows an "error" at once comes first, and so
\* does the end of a stop() that is under way.
TimerFire ==
  /\ UNCHANGED toolVars
  /\ last' = "TimerFire"
  /\ Idle
  /\ tp.timers > 0
  /\ \A s \in Sockets : sock[s].pending # "closeSoon"
  /\ srv # "stopping"
  /\ \E n \in Sockets :
       /\ IsNewSlot(n)
       /\ tp' = startIn([tp EXCEPT !.timers = @ - 1], n)
       /\ sock' = startSock(sock, n, "timer")
  /\ UNCHANGED <<wire, nextId, serverEnabled, mcpServer, srv, mcp, cmds>>

\* The catch block of the timer callback: start() of socket s was rejected.
TimerCatch(s) ==
  /\ UNCHANGED toolVars
  /\ last' = "TimerCatch"
  /\ ~TickPending
  /\ sock[s].promise = "rejected"
  /\ sock[s].caller = "timer"
  /\ tp' = reconnect([tp EXCEPT !.isReconnecting = FALSE])
  /\ sock' = Forget([sock EXCEPT ![s].promise = "none"])
  /\ cmds' = cmds \o Issued(tp, tp')
  /\ StepBounded
  /\ UNCHANGED <<wire, nextId, serverEnabled, mcpServer, srv, mcp>>

Next ==
  \/ OperatorClick
  \/ RunToggle
  \/ StopFinish
  \/ \E s \in Sockets : StartResolved(s)
  \/ \E s \in Sockets : ConnectResolved(s)
  \/ \E s \in Sockets : StartRejected(s)
  \/ Send
  \/ \E s \in Sockets : SockOpen(s)
  \/ \E s \in Sockets, sync \in BOOLEAN : SockConnFail(s, sync)
  \/ \E s \in Sockets : SockAbort(s)
  \/ \E s \in Sockets : SockClose(s)
  \/ \E s \in Sockets, closes \in BOOLEAN : SockError(s, closes)
  \/ \E s \in Sockets, f \in Frames, throws \in BOOLEAN : SockMessage(s, f, throws)
  \/ TimerFire
  \/ \E s \in Sockets : TimerCatch(s)

Spec == Init /\ [][Next]_vars

\* ---- search-replace engine (src/src/tools/search-replace.ts) ------------
\* Text is a sequence of characters.  Offsets are counted from 0, as in the
\* code; null is the empty tuple and a match is <<start, end>>.

\* Whitespace as String.prototype.trim sees it; " " stands for every blank
\* that is no line feed.
IsSpace(c) == c \in {" ", "\n"}

RECURSIVE trimStart(_)
trimStart(s) ==
  IF s # <<>> /\ IsSpace(Head(s)) THEN trimStart(Tail(s)) ELSE s

RECURSIVE trimEnd(_)
trimEnd(s) ==
  IF s # <<>> /\ IsSpace(s[Len(s)]) THEN trimEnd(SubSeq(s, 1, Len(s) - 1))
  ELSE s

\* String.prototype.trim
trim(s) == trimEnd(trimStart(s))

\* s.split("\n")
RECURSIVE split(_)
split(s) ==
  IF \A i \in 1..Len(s) : s[i] # "\n" THEN <<s>>
  ELSE LET i == CHOOSE k \in 1..Len(s) :
                  s[k] = "\n" /\ \A m \in 1..(k - 1) : s[m] # "\n"
       IN <<SubSeq(s, 1, i - 1)>> \o split(SubSeq(s, i + 1, Len(s)))

\* s.slice(a, b) and s.slice(a) for offsets that are not negative.
slice(s, a, b) == SubSeq(s, a + 1, IF b > Len(s) THEN Len(s) ELSE b)
sliceFrom(s, a) == SubSeq(s, a + 1, Len(s))

\* d.indexOf(s, i): the first offset from i on at which s occurs, or -1.
RECURSIVE indexOf(_, _, _)
indexOf(d, s, i) ==
  IF i + Len(s) > Len(d) THEN -1
  ELSE IF SubSeq(d, i + 1, i + Len(s)) = s THEN i
  ELSE indexOf(d, s, i + 1)

\* An exact-match tier that takes the last occurrence.
RECURSIVE lastIndexOf(_, _, _)
lastIndexOf(d, s, i) ==
  IF i < 0 THEN -1
  ELSE IF i + Len(s) <= Len(d) /\ SubSeq(d, i + 1, i + Len(s)) = s THEN i
  ELSE lastIndexOf(d, s, i - 1)

findExactMatchLast(originalContent, searchContent, startIndex) ==
  LET index == lastIndexOf(originalContent, searchContent, Len(originalContent)) IN
  IF index # -1 THEN <<index, index + Len(searchContent)>> ELSE <<>>

findExactMatch(originalContent, searchContent, startIndex) ==
  LET index == indexOf(originalContent, searchContent, startIndex) IN
  IF index # -1 THEN <<index, index + Len(searchContent)>> ELSE <<>>

\* "Remove trailing empty line if exists"
dropTrailingEmpty(lines) ==
  IF lines[Len(lines)] = <<>> THEN SubSeq(lines, 1, Len(lines) - 1) ELSE lines

\* The while loop that finds the line startIndex falls in.
RECURSIVE startLineNum(_, _, _, _)
startLineNum(lines, startIndex, currentIndex, n) ==
  IF currentIndex < startIndex /\ n < Len(lines)
  THEN startLineNum(lines, startIndex, currentIndex + Len(lines[n + 1]) + 1, n + 1)
  ELSE n

\* The for loops that add up length + 1 of the n lines from line i on.
RECURSIVE spanLength(_, _, _)
spanLength(lines, i, n) ==
  IF n = 0 THEN 0
  ELSE Len(lines[i + 1]) + 1 + spanLength(lines, i + 1, n - 1)

\* An inner loop that compares the lines as they are.
linesMatchUntrimmed(ol, sl, i) ==
  \A j \in 0..(Len(sl) - 1) : ol[i + j + 1] = sl[j + 1]

\* The inner loop of findTrimmedMatch.
linesMatchTrimmed(ol, sl, i) ==
  \A j \in 0..(Len(sl) - 1) : trim(ol[i + j + 1]) = trim(sl[j + 1])

\* The outer loop of findTrimmedMatch, from line i on.
RECURSIVE trimmedScan(_, _, _)
trimmedScan(ol, sl, i) ==
  IF i > Len(ol) - Len(sl) THEN <<>>
  ELSE IF linesMatchTrimmed(ol, sl, i)
  THEN LET matchStartIndex == spanLength(ol, 0, i) IN
       <<matchStartIndex, matchStartIndex + spanLength(ol, i, Len(sl))>>
  ELSE trimmedScan(ol, sl, i + 1)

findTrimmedMatch(originalContent, searchContent, startIndex) ==
  LET originalLines == split(originalContent)
      searchLines == dropTrailingEmpty(split(searchContent))
  IN trimmedScan(originalLines, searchLines,
                 startLineNum(originalLines, startIndex, 0, 0))

\* An anchor test that looks at the first line only.
anchorsMatchFirstOnly(ol, sl, i) == trim(ol[i + 1]) = trim(sl[1])

\* The anchor test of findAnchorMatch.
anchorsMatch(ol, sl, i) ==
  /\ trim(ol[i + 1]) = trim(sl[1])
  /\ trim(ol[i + Len(sl)]) = trim(sl[Len(sl)])

\* The loop of findAnchorMatch, from line i on.
RECURSIVE anchorScan(_, _, _)
anchorScan(ol, sl, i) ==
  IF i > Len(ol) - Len(sl) THEN <<>>
  ELSE IF anchorsMatch(ol, sl, i)
  THEN LET matchStartIndex == spanLength(ol, 0, i) IN
       <<matchStartIndex, matchStartIndex + spanLength(ol, i, Len(sl))>>
  ELSE anchorScan(ol, sl, i + 1)

\* "Only use this for blocks of 3+ lines": TRUE when findAnchorMatch goes on
\* to look for anchors.  The test counts the lines before the trailing empty
\* line is dropped.
anchorTierScans(searchContent) == ~(Len(split(searchContent)) < 3)

\* An anchor tier that keeps the trailing empty line of the search text.
findAnchorMatchKeepsTrailing(originalContent, searchContent, startIndex) ==
  LET originalLines == split(originalContent)
      searchLines == split(searchContent)
  IN IF ~anchorTierScans(searchContent) THEN <<>>
     ELSE anchorScan(originalLines, searchLines,
                     startLineNum(originalLines, startIndex, 0, 0))

findAnchorMatch(originalContent, searchContent, startIndex) ==
  LET originalLines == split(originalContent)
      searchLines == split(searchContent)
  IN IF ~anchorTierScans(searchContent) THEN <<>>
     ELSE anchorScan(originalLines, dropTrailingEmpty(searchLines),
                     startLineNum(originalLines, startIndex, 0, 0))

\* A sentinel test that knows the empty search text only.
isWholeFileReplaceEmptyOnly(searchContent) == searchContent = <<>>

\* "Handle empty search - replace entire file"
isWholeFileReplace(searchContent) ==
  searchContent = <<>> \/ trim(searchContent) = <<>>

\* The whitespace-tolerant tier asked before the exact one.
findMatchTrimmedFirst(originalContent, searchContent) ==
  LET trimmed == findTrimmedMatch(originalContent, searchContent, 0) IN
  IF trimmed # <<>> THEN trimmed
  ELSE LET exact == findExactMatch(originalContent, searchContent, 0) IN
       IF exact # <<>> THEN exact
       ELSE findAnchorMatch(originalContent, searchContent, 0)

\* The three tiers in their order.
findMatch(originalContent, searchContent) ==
  LET exact == findExactMatch(originalContent, searchContent, 0) IN
  IF exact # <<>> THEN exact
  ELSE LET trimmed == findTrimmedMatch(originalContent, searchContent, 0) IN
       IF trimmed # <<>> THEN trimmed
       ELSE findAnchorMatch(originalContent, searchContent, 0)

\* A splice that loses the character after the span.
spliceSkipsOne(originalContent, match, replaceContent) ==
  slice(originalContent, 0, match[1]) \o replaceContent
    \o sliceFrom(originalContent, match[2] + 1)

\* "Build the result"
splice(originalContent, match, replaceContent) ==
  slice(originalContent, 0, match[1]) \o replaceContent
    \o sliceFrom(originalContent, match[2])

\* applySearchReplace: the text it returns, or the error it throws.
applySearchReplace(originalContent, searchContent, replaceContent) ==
  IF isWholeFileReplace(searchContent)
  THEN [ threw |-> FALSE, text |-> replaceContent ]
  ELSE LET match == findMatch(originalContent, searchContent) IN
       IF match = <<>>
       THEN [ threw |-> TRUE, text |-> <<>> ]
       ELSE [ threw |-> FALSE,
              text |-> splice(originalContent, match, replaceContent) ]

\* The stored document of one path: the file of the workspace and the entry
\* of the virtual store, which is looked at first.
getVirtualFile(store) == store.virtual

\* A searchReplaceInFile that stores the replacement when nothing matched.
searchReplaceInFileStoresAnyway(store, searchContent, replaceContent, hasWorkspace) ==
  IF ~hasWorkspace THEN [ store |-> store, outcome |-> "noWorkspace", writes |-> 0 ]
  ELSE LET virtualContent == getVirtualFile(store) IN
    IF virtualContent.defined
    THEN LET modified == applySearchReplace(virtualContent.content,
                                            searchContent, replaceContent) IN
         [ store |-> [store EXCEPT !.virtual.content =
                        IF modified.threw THEN replaceContent ELSE modified.text],
           outcome |-> IF modified.threw THEN "notFound" ELSE "ok",
           writes |-> 1 ]
    ELSE LET modified == applySearchReplace(store.file, searchContent,
                                            replaceContent) IN
         [ store |-> [store EXCEPT !.file =
                        IF modified.threw THEN replaceContent ELSE modified.text],
           outcome |-> IF modified.threw THEN "notFound" ELSE "ok",
           writes |-> 1 ]

\* searchReplaceInFile (search-tools.ts): the store after the call, the way
\* the call ended and the number of writes to the store.  The editor calls
\* that follow the write do not touch the store.
searchReplaceInFile(store, searchContent, replaceContent, hasWorkspace) ==
  IF ~hasWorkspace THEN [ store |-> store, outcome |-> "noWorkspace", writes |-> 0 ]
  ELSE LET virtualContent == getVirtualFile(store) IN
    IF virtualContent.defined
    THEN LET modified == applySearchReplace(virtualContent.content,
                                            searchContent, replaceContent) IN
         IF modified.threw
         THEN [ store |-> store, outcome |-> "notFound", writes |-> 0 ]
         ELSE [ store |-> [store EXCEPT !.virtual.content = modified.text],
                outcome |-> "ok", writes |-> 1 ]
    ELSE LET modified == applySearchReplace(store.file, searchContent,
                                            replaceContent) IN
         IF modified.threw
         THEN [ store |-> store, outcome |-> "notFound", writes |-> 0 ]
         ELSE [ store |-> [store EXCEPT !.file = modified.text],
                outcome |-> "ok", writes |-> 1 ]

\* ---- inputs of the search-replace engine --------------------------------

\* lines.join("\n")
RECURSIVE Join(_)
Join(lines) ==
  IF Len(lines) = 1 THEN lines[1]
  ELSE lines[1] \o <<"\n">> \o Join(Tail(lines))

DocLineSet == {<<>>, <<"a">>, <<" ", "a">>}
SearchLineSet == {<<>>, <<"a">>, <<"b">>, <<" ">>}
Replacements == {<<"x">>}

Texts(lineSet, maxLines) ==
  {Join(ls) : ls \in UNION {[1..n -> lineSet] : n \in 1..maxLines}}

\* The store that holds doc as the document of the path: in the virtual
\* store (the file of the same path then has another content) or as a file.
StoreOf(doc, virtual) ==
  IF virtual
  THEN [ file |-> <<"b">>, virtual |-> [ defined |-> TRUE, content |-> doc ] ]
  ELSE [ file |-> doc, virtual |-> [ defined |-> FALSE, content |-> <<>> ] ]

\* The document the operation works on.
StoredDoc(store) ==
  IF store.virtual.defined THEN store.virtual.content ELSE store.file

InitPatch ==
  /\ BridgeInit
  /\ listing = NoListing
  /\ tool = NoTool
  /\ \E doc \in Texts(DocLineSet, MaxDocLines),
        search \in Texts(SearchLineSet, MaxSearchLines),
        repl \in Replacements, virtual \in BOOLEAN :
       patch = [ phase |-> "ready", doc |-> doc, search |-> search,
                 repl |-> repl, store |-> StoreOf(doc, virtual),
                 outcome |-> "none", text |-> <<>>, writes |-> 0,
                 spans |-> <<>> ]

\* The engine is called on the document, the search text and the replacement.
CallApplySearchReplace ==
  /\ patch.phase = "ready"
  /\ LET r == applySearchReplace(patch.doc, patch.search, patch.repl) IN
     patch' = [patch EXCEPT !.phase = "applied",
                            !.outcome = IF r.threw THEN "notFound" ELSE "ok",
                            !.text = r.text]
  /\ UNCHANGED <<bridgeVars, listing, tool>>

\* The search_replace operation is called on the stored document.
SearchReplaceInFile(hasWorkspace) ==
  /\ patch.phase = "ready"
  /\ LET r == searchReplaceInFile(patch.store, patch.search, patch.repl,
                                  hasWorkspace) IN
     patch' = [patch EXCEPT !.phase = "stored",
                            !.outcome = r.outcome,
                            !.store = r.store,
                            !.writes = r.writes]
  /\ UNCHANGED <<bridgeVars, listing, tool>>

\* Each of the three tiers is called on the document and the search text.
CallTiers ==
  /\ patch.phase = "ready"
  /\ patch' = [patch EXCEPT
       !.phase = "matched",
       !.spans = << findExactMatch(patch.doc, patch.search, 0),
                    findTrimmedMatch(patch.doc, patch.search, 0),
                    findAnchorMatch(patch.doc, patch.search, 0) >>]
  /\ UNCHANGED <<bridgeVars, listing, tool>>

NextPatch ==
  \/ CallApplySearchReplace
  \/ CallTiers
  \/ \E hasWorkspace \in BOOLEAN : SearchReplaceInFile(hasWorkspace)

SpecPatch == InitPatch /\ [][NextPatch]_vars

\* ---- bounded traversal (utils/virtual-fs.ts) ------------------------------

\* FILE_LISTING_DEFAULTS
MAX_FILES == 200
MAX_DEPTH == 5

\* HIDDEN_LIMITS ("not exposed to the model")
ABSOLUTE_MAX_FILES == 500
ABSOLUTE_MAX_DEPTH == 10
MAX_IMMEDIATE_CHILDREN == 1000

\* "Directories to always exclude"
ALWAYS_EXCLUDED_DIRS ==
  { <<"n", "o", "d", "e", "_", "m", "o", "d", "u", "l", "e", "s">>,
    <<".", "g", "i", "t">>,
    <<".", "v", "e", "n", "v">>,
    <<"v", "e", "n", "v">>,
    <<"e", "n", "v">>,
    <<"_", "_", "p", "y", "c", "a", "c", "h", "e", "_", "_">>,
    <<".", "p", "y", "t", "e", "s", "t", "_", "c", "a", "c", "h", "e">>,
    <<".", "m", "y", "p", "y", "_", "c", "a", "c", "h", "e">>,
    <<"d", "i", "s", "t">>,
    <<"b", "u", "i", "l", "d">>,
    <<"o", "u", "t">>,
    <<"t", "a", "r", "g", "e", "t">>,
    <<".", "n", "e", "x", "t">>,
    <<".", "n", "u", "x", "t">>,
    <<"c", "o", "v", "e", "r", "a", "g", "e">>,
    <<".", "n", "y", "c", "_", "o", "u", "t", "p", "u", "t">>,
    <<".", "t", "o", "x">>,
    <<"e", "g", "g", "s">>,
    <<".", "e", "g", "g", "s">>,
    <<"h", "t", "m", "l", "c", "o", "v">>,
    <<".", "c", "o", "v", "e", "r", "a", "g", "e">>,
    <<".", "h", "y", "p", "o", "t", "h", "e", "s", "i", "s">>,
    <<".", "r", "u", "f", "f", "_", "c", "a", "c", "h", "e">> }

Min(a, b) == IF a < b THEN a ELSE b

\* The decimal digits of a number, as template literals print it.
RECURSIVE Digits(_)
Digits(n) ==
  IF n < 10
  THEN << <<"0", "1", "2", "3", "4", "5", "6", "7", "8", "9">>[n + 1] >>
  ELSE Digits(n \div 10) \o Digits(n % 10)

\* String.prototype.split(sep) for a separator of one character: the p-th
\* part lies between the (p - 1)-th and the p-th separator.
splitBy(s, sep) ==
  LET separators == {i \in 1..Len(s) : s[i] = sep}
      separatorAt(p) ==
        IF p = 0 THEN 0
        ELSE IF p > Cardinality(separators) THEN Len(s) + 1
        ELSE CHOOSE i \in separators :
               Cardinality({j \in separators : j < i}) = p - 1
  IN [p \in 1..(Cardinality(separators) + 1) |->
        SubSeq(s, separatorAt(p - 1) + 1, separatorAt(p) - 1)]

includes(s, sub) == indexOf(s, sub, 0) # -1
startsWith(s, prefix) ==
  Len(prefix) <= Len(s) /\ SubSeq(s, 1, Len(prefix)) = prefix

\* readGitignorePatterns: the trimmed lines of the ignore file that are not
\* empty and not comments; no pattern when the file cannot be read.
readGitignorePatterns(gitignore) ==
  IF ~gitignore.exists THEN <<>>
  ELSE LET lines == split(gitignore.content)
           trimmed == [i \in 1..Len(lines) |-> trim(lines[i])]
           Kept(line) == line # <<>> /\ ~startsWith(line, <<"#">>)
       IN SelectSeq(trimmed, Kept)

\* "parts.some((part) => part === pattern || part.startsWith(pattern))"
somePartMatches(parts, pattern) ==
  \E p \in 1..Len(parts) :
    parts[p] = pattern \/ startsWith(parts[p], pattern)

\* One pattern of matchesGitignorePattern.
patternMatches(normalizedPath, pattern) ==
  IF includes(pattern, <<"/">>)
  THEN includes(normalizedPath, pattern)
  ELSE somePartMatches(splitBy(normalizedPath, "/"), pattern)

matchesGitignorePattern(path, patterns) ==
  LET normalizedPath ==
        [i \in 1..Len(path) |-> IF path[i] = "\\" THEN "/" ELSE path[i]]
  IN \E k \in 1..Len(patterns) : patternMatches(normalizedPath, patterns[k])

\* gitignorePatternsCache = null
NoCache == [ loaded |-> FALSE, patterns |-> <<>> ]

\* "return matchesGitignorePattern(relativePath, gitignorePatternsCache)",
\* with the state of the call it leaves.
ignoredByCache(relativePath, st) ==
  [ ignored |-> matchesGitignorePattern(relativePath, st.cache.patterns),
    st |-> st ]

\* isGitIgnored: the answer, and the cache and the number of reads of the
\* ignore file after it.  st is the state of the listing call.
isGitIgnored(gitignore, relativePath, st) ==
  IF st.cache.loaded THEN ignoredByCache(relativePath, st)
  ELSE ignoredByCache(relativePath,
         [st EXCEPT !.cache = [ loaded |-> TRUE,
                                patterns |-> readGitignorePatterns(gitignore) ],
                    !.loads = @ + 1])

\* type & vscode.FileType.Directory (File = 1, Directory = 2,
\* SymbolicLink = 64)
itemType(type) == IF (type \div 2) % 2 = 1 THEN "directory" ELSE "file"

\* vscode.workspace.fs.readDirectory: the entries of a directory, each with
\* its name, its FileType and, for a directory, the directory it leads to.
readDirectory(fs, dirUri) == fs[dirUri]

\* "Check for directories with too many immediate children"
tooManyChildren(currentPath, st) ==
  [ result |-> << [ path |-> currentPath, type |-> "directory" ] >>,
    st |-> [st EXCEPT !.pushed = Append(@, [ path |-> currentPath,
                                             type |-> "directory" ])] ]

\* A depth test that lets one more level through.
depthLimitReachedLate(env, currentDepth) ==
  env.recursive /\ currentDepth > env.effectiveMaxDepth

\* A depth test that knows the hidden ceiling only.
depthLimitReachedAtCeiling(env, currentDepth) ==
  env.recursive /\ currentDepth >= ABSOLUTE_MAX_DEPTH

\* "Check depth limit"
depthLimitReached(env, currentDepth) ==
  env.recursive /\ currentDepth >= env.effectiveMaxDepth

\* A count test that lets one more entry through.
fileLimitReachedLate(env, st) == st.fileCount > env.effectiveMaxFiles

\* "Check file count limit"
fileLimitReached(env, st) == st.fileCount >= env.effectiveMaxFiles

\* processDirectory and its loop over the entries.  env holds what the
\* closure captures and never assigns; st holds fileCount, limitReached, the
\* ignore cache and what the call has read so far.  The elapsed-time test
\* is true from the (env.expiry.after + 1)-th directory on, when timed.
\*
\* The calls of processDirectory that have not returned are kept in a stack:
\* each holds its entries, the index of the next entry of its loop, its
\* currentPath and currentDepth, and its result so far.  The innermost call
\* is the last one; a call that awaits a sub-directory has already moved to
\* its next entry.

\* The sub-entries put in front of what the loop has collected.
pushSubEntriesInFront(result, subEntries) ==
  [ result |-> subEntries.result \o result, st |-> subEntries.st,
    broke |-> FALSE ]

\* "result.push(...subEntries)"
pushSubEntries(result, subEntries) ==
  [ result |-> result \o subEntries.result, st |-> subEntries.st,
    broke |-> FALSE ]

\* A call of processDirectory returns r: to the call that awaits it, which
\* pushes the sub-entries, or, for the call on the target, to
\* listWorkspaceFiles.
leave(stack, r) ==
  IF stack = <<>>
  THEN [ done |-> TRUE, stack |-> <<>>, st |-> r.st, result |-> r.result ]
  ELSE [ done |-> FALSE,
         stack |-> [stack EXCEPT
                      ![Len(stack)].result = pushSubEntries(@, r).result],
         st |-> r.st, result |-> <<>> ]

\* The turn after the entry was pushed and counted: sub holds the
\* sub-directory to process before the next turn, if any.
descend(node, entryPath, type, currentDepth, recursive, result, st) ==
  [ result |-> result, st |-> st, broke |-> FALSE,
    sub |-> IF recursive /\ type = "directory" /\ ~st.limitReached
            THEN << [ dirUri |-> node, currentPath |-> entryPath,
                      currentDepth |-> currentDepth + 1 ] >>
            ELSE <<>> ]

\* The turn after the ignore test, whose answer is g.
pushEntry(env, entry, entryPath, type, currentDepth, result, g) ==
  IF g.ignored
  THEN [ result |-> result, st |-> g.st, broke |-> FALSE, sub |-> <<>> ]
  ELSE descend(entry.node, entryPath, type, currentDepth, env.recursive,
               Append(result, [ path |-> entryPath, type |-> type ]),
               [g.st EXCEPT !.fileCount = @ + 1,
                            !.pushed = Append(@, [ path |-> entryPath,
                                                   type |-> type ])])

\* An exclusion test that looks at files instead of directories.
alwaysExcludedFilesOnly(name, type) ==
  type = "file" /\ name \in ALWAYS_EXCLUDED_DIRS

\* "Check if directory should be excluded"
alwaysExcluded(name, type) ==
  type = "directory" /\ name \in ALWAYS_EXCLUDED_DIRS

\* The turn after entryPath and itemType are known: the two filters.
filterEntry(env, entry, entryPath, type, currentDepth, acc) ==
  IF alwaysExcluded(entry.name, type)
  THEN acc
  ELSE pushEntry(env, entry, entryPath, type, currentDepth, acc.result,
                 IF env.ignoreGitignore
                 THEN isGitIgnored(env.gitignore, entryPath, acc.st)
                 ELSE [ ignored |-> FALSE, st |-> acc.st ])

\* One turn of the loop "for (const [name, type] of entries)"; broke tells
\* that the turn left the loop.
forEntry(env, entry, currentPath, currentDepth, acc) ==
  IF fileLimitReached(env, acc.st)
  THEN [acc EXCEPT !.st.limitReached = TRUE, !.broke = TRUE]
  ELSE filterEntry(env, entry,
                   IF currentPath # <<>>
                   THEN currentPath \o <<"/">> \o entry.name ELSE entry.name,
                   itemType(entry.type), currentDepth, acc)

\* "return result"
loopResult(result, st) == [ result |-> result, st |-> st ]

\* processDirectory once the directory was read: the call returns at once,
\* or starts its loop with "const result = []".
listEntries(entries, currentPath, currentDepth, stack, st) ==
  IF Len(entries) > MAX_IMMEDIATE_CHILDREN
  THEN leave(stack, tooManyChildren(currentPath, st))
  ELSE [ done |-> FALSE,
         stack |-> Append(stack, [ entries |-> entries, next |-> 1,
                                   currentPath |-> currentPath,
                                   currentDepth |-> currentDepth,
                                   result |-> <<>> ]),
         st |-> st, result |-> <<>> ]

\* The elapsed-time test failed, without the truncation flag.
timeoutReachedSilently(st) ==
  [ result |-> <<>>,
    st |-> [st EXCEPT !.calls = @ + 1,
                      !.expired = Append(@, [ reads |-> Len(st.reads),
                                              pushed |-> st.pushed ])] ]

\* "Check timeout": the elapsed-time test failed.  expired keeps what the
\* call had read and pushed at that moment.
timeoutReached(st) ==
  [ result |-> <<>>,
    st |-> [st EXCEPT !.calls = @ + 1, !.limitReached = TRUE,
                      !.expired = Append(@, [ reads |-> Len(st.reads),
                                              pushed |-> st.pushed ])] ]

\* A call of processDirectory, from its first line to the start of its loop
\* or to its early return; stack holds the calls that await it.
processDirectory(env, dirUri, currentPath, currentDepth, stack, st) ==
  IF env.expiry.timed /\ st.calls + 1 > env.expiry.after
  THEN leave(stack, timeoutReached(st))
  ELSE IF depthLimitReached(env, currentDepth)
  THEN leave(stack, [ result |-> <<>>, st |-> [st EXCEPT !.calls = @ + 1] ])
  ELSE listEntries(readDirectory(env.fs, dirUri), currentPath, currentDepth,
                   stack,
                   [st EXCEPT !.calls = @ + 1,
                              !.reads = Append(@, [ dir |-> dirUri,
                                                    path |-> currentPath,
                                                    depth |-> currentDepth ])])

\* The innermost call after a turn of its loop gave acc: it returns on
\* "break", awaits the sub-directory, or goes on to its next entry.
afterEntry(env, stack, acc) ==
  IF acc.broke
  THEN leave(SubSeq(stack, 1, Len(stack) - 1), loopResult(acc.result, acc.st))
  ELSE IF acc.sub # <<>>
  THEN processDirectory(env, acc.sub[1].dirUri, acc.sub[1].currentPath,
                        acc.sub[1].currentDepth,
                        [stack EXCEPT ![Len(stack)].next = @ + 1,
                                      ![Len(stack)].result = acc.result],
                        acc.st)
  ELSE [ done |-> FALSE,
         stack |-> [stack EXCEPT ![Len(stack)].next = @ + 1,
                                 ![Len(stack)].result = acc.result],
         st |-> acc.st, result |-> <<>> ]

\* The innermost call, top, takes the next turn of its loop, or returns
\* after its last entry.
turn(env, stack, top, st) ==
  IF top.next > Len(top.entries)
  THEN leave(SubSeq(stack, 1, Len(stack) - 1), loopResult(top.result, st))
  ELSE afterEntry(env, stack,
         forEntry(env, top.entries[top.next], top.currentPath,
                  top.currentDepth,
                  [ result |-> top.result, st |-> st, broke |-> FALSE,
                    sub |-> <<>> ]))

\* k turns of the loops, in order, or fewer when the call on the target
\* returns before; then as many more as it takes.
RECURSIVE turns(_, _, _)
turns(env, k, m) ==
  IF m.done THEN m
  ELSE IF k = 1 THEN turn(env, m.stack, m.stack[Len(m.stack)], m.st)
  ELSE turns(env, k - (k \div 2), turns(env, k \div 2, m))

RECURSIVE untilReturned(_, _, _)
untilReturned(env, k, m) ==
  IF m.done THEN m ELSE untilReturned(env, 2 * k, turns(env, k, m))

\* The turns of the first round: enough to list ABSOLUTE_MAX_FILES entries
\* of one directory.
FirstTurns == 512

\* "let fileCount = 0; let limitReached = false; ... await
\* processDirectory(targetUri)": the result of the call on the target (node 1
\* of fs), with the state it leaves.
processTarget(env, cache) ==
  untilReturned(env, FirstTurns,
                processDirectory(env, 1, <<>>, 0, <<>>,
                  [ fileCount |-> 0, limitReached |-> FALSE, calls |-> 0,
                    reads |-> <<>>, cache |-> cache, loads |-> 0,
                    pushed |-> <<>>, expired |-> <<>> ]))

\* "[TRUNCATED: Reached limit of ${effectiveMaxFiles} files]"
truncationPath(effectiveMaxFiles) ==
  <<"[", "T", "R", "U", "N", "C", "A", "T", "E", "D", ":", " ", "R", "e", "a", "c", "h", "e", "d", " ", "l", "i", "m", "i", "t", " ", "o", "f", " ">> \o Digits(effectiveMaxFiles) \o <<" ", "f", "i", "l", "e", "s", "]">>

truncationMarker(effectiveMaxFiles) ==
  [ path |-> truncationPath(effectiveMaxFiles), type |-> "file" ]

\* What listWorkspaceFiles returns after processDirectory(targetUri) gave r,
\* with the cache it leaves and what it has read.
returned(effectiveMaxFiles, r) ==
  [ result |-> IF r.st.limitReached
               THEN Append(r.result, truncationMarker(effectiveMaxFiles))
               ELSE r.result,
    cache |-> r.st.cache,
    entered |-> r.st.calls,
    reads |-> r.st.reads,
    loads |-> r.st.loads,
    fileCount |-> r.st.fileCount,
    limitReached |-> r.st.limitReached,
    expired |-> r.st.expired ]

\* listWorkspaceFiles on the target directory (node 1 of fs).
listWorkspaceFiles(fs, gitignore, cache, recursive, options, expiry) ==
  returned(Min(options.maxFiles, ABSOLUTE_MAX_FILES),
    processTarget(
      [ fs |-> fs, gitignore |-> gitignore, recursive |-> recursive,
        ignoreGitignore |-> options.ignoreGitignore,
        effectiveMaxDepth |-> Min(options.maxDepth, ABSOLUTE_MAX_DEPTH),
        effectiveMaxFiles |-> Min(options.maxFiles, ABSOLUTE_MAX_FILES),
        expiry |-> expiry ],
      cache))

\* ---- listing calls --------------------------------------------------------

FileNamed(name) == [ name |-> name, type |-> 1, node |-> 0 ]
DirNamed(name, node) == [ name |-> name, type |-> 2, node |-> node ]

\* Directory trees below the target: a tree gives, for each directory, its
\* entries in the order readDirectory returns them; directory 1 is the target.
SmallTree ==
  << << FileNamed(<<"a">>), FileNamed(<<"b">>), DirNamed(<<"d">>, 2),
        DirNamed(<<"n", "o", "d", "e", "_", "m", "o", "d", "u", "l", "e", "s">>, 3) >>,
     << FileNamed(<<"f">>), DirNamed(<<"e">>, 4) >>,
     << FileNamed(<<"x">>) >>,
     << FileNamed(<<"g">>) >> >>

EmptyTree == << <<>> >>

\* A chain of directories deeper than the hidden depth ceiling.
DeepTree ==
  [n \in 1..(ABSOLUTE_MAX_DEPTH + 2) |->
     IF n < ABSOLUTE_MAX_DEPTH + 2
     THEN << DirNamed(<<"d">>, n + 1) >> ELSE << FileNamed(<<"f">>) >>]

ManyFiles(n) == [i \in 1..n |-> FileNamed(<<"f">> \o Digits(i))]

\* More files in the target than the hidden count ceiling.
WideTree == << ManyFiles(ABSOLUTE_MAX_FILES + 1) >>

\* A subdirectory, or the target, with more children than the hard ceiling.
CrowdedTree ==
  << << DirNamed(<<"h">>, 2), FileNamed(<<"a">>), FileNamed(<<"b">>) >>,
     ManyFiles(MAX_IMMEDIATE_CHILDREN + 1) >>
CrowdedTarget == << ManyFiles(MAX_IMMEDIATE_CHILDREN + 1) >>

\* A file and a directory with always-excluded names in the target, and a
\* file with such a name one level down.
ExcludedTree ==
  << << FileNamed(<<"e", "n", "v">>), DirNamed(<<"o", "u", "t">>, 2),
        DirNamed(<<"s">>, 3) >>,
     << FileNamed(<<"x">>) >>,
     << FileNamed(<<"d", "i", "s", "t">>), FileNamed(<<"y">>) >> >>

\* A symbolic link to a directory (FileType.Directory | FileType.SymbolicLink)
SymlinkDirNamed(name, node) == [ name |-> name, type |-> 66, node |-> node ]

\* A target that holds a link to itself: a directory graph with a cycle.
CycleTree == << << FileNamed(<<"a">>), SymlinkDirNamed(<<"l">>, 1) >> >>

TreeNames ==
  {"small", "empty", "deep", "wide", "crowded", "crowdedTarget", "excluded",
   "cycle"}
TreeOf(tree) ==
  CASE tree = "small" -> SmallTree
    [] tree = "empty" -> EmptyTree
    [] tree = "deep" -> DeepTree
    [] tree = "wide" -> WideTree
    [] tree = "crowded" -> CrowdedTree
    [] tree = "crowdedTarget" -> CrowdedTarget
    [] tree = "excluded" -> ExcludedTree
    [] tree = "cycle" -> CycleTree

\* The ignore file of the workspace: missing, or with one of two contents.
GitignoreFiles ==
  { [ exists |-> FALSE, content |-> <<>> ],
    [ exists |-> TRUE, content |-> <<"a">> ],
    [ exists |-> TRUE, content |-> <<"#", "b", "\n", " ", "d", "\n">> ] }

\* The options a caller gives: the defaults, small values, and values above
\* the hidden ceilings.
MaxDepthInputs == {0, 1, 2, MAX_DEPTH, ABSOLUTE_MAX_DEPTH + 1}
MaxFilesInputs == {0, 1, 3, MAX_FILES, ABSOLUTE_MAX_FILES + 1}
OptionInputs ==
  [ ignoreGitignore : BOOLEAN, maxDepth : MaxDepthInputs,
    maxFiles : MaxFilesInputs ]

\* When the elapsed-time test starts to fail: never, or after a number of
\* directories.
ExpiryInputs ==
  { [ timed |-> FALSE, after |-> 0 ] }
    \cup { [ timed |-> TRUE, after |-> k ] : k \in 0..MaxTimedReads }

NoCall ==
  [ recursive |-> FALSE,
    options |-> [ ignoreGitignore |-> FALSE, maxDepth |-> 0, maxFiles |-> 0 ],
    expiry |-> [ timed |-> FALSE, after |-> 0 ],
    result |-> <<>>, entered |-> 0, reads |-> <<>>, loads |-> 0,
    fileCount |-> 0,
    limitReached |-> FALSE, expired |-> <<>>, cacheBefore |-> NoCache ]

InitListing ==
  /\ BridgeInit
  /\ patch = NoPatch
  /\ tool = NoTool
  /\ \E tree \in TreeNames, gitignore \in GitignoreFiles :
       listing = [ phase |-> "ready", tree |-> tree, gitignore |-> gitignore,
                   cache |-> NoCache, calls |-> 0, call |-> NoCall ]

\* The listing calls after a call with these arguments returned r.
afterCall(recursive, options, expiry, r) ==
  [listing EXCEPT
     !.phase = "listed",
     !.calls = @ + 1,
     !.cache = r.cache,
     !.call = [ recursive |-> recursive, options |-> options,
                expiry |-> expiry, result |-> r.result,
                entered |-> r.entered, reads |-> r.reads,
                loads |-> r.loads, fileCount |-> r.fileCount,
                limitReached |-> r.limitReached,
                expired |-> r.expired,
                cacheBefore |-> listing.cache ]]

\* One call of listWorkspaceFiles on the target, from its first line to the
\* returned array.
ListWorkspaceFiles(recursive, options, expiry) ==
  /\ listing.phase = "ready"
  /\ listing.calls < MaxListings
  /\ listing' = afterCall(recursive, options, expiry,
                  listWorkspaceFiles(TreeOf(listing.tree), listing.gitignore,
                                     listing.cache, recursive, options, expiry))
  /\ UNCHANGED <<bridgeVars, patch, tool>>

\* The list_files_code handler hands the array to the client.
ListFilesReturns ==
  /\ listing.phase = "listed"
  /\ listing' = [listing EXCEPT !.phase = "ready", !.call = NoCall]
  /\ UNCHANGED <<bridgeVars, patch, tool>>

\* Somebody edits, creates or removes the ignore file between two calls.
GitignoreChanges(gitignore) ==
  /\ listing.phase = "ready"
  /\ gitignore # listing.gitignore
  /\ listing' = [listing EXCEPT !.gitignore = gitignore]
  /\ UNCHANGED <<bridgeVars, patch, tool>>

NextListing ==
  \/ \E recursive \in BOOLEAN, options \in OptionInputs,
        expiry \in ExpiryInputs :
       ListWorkspaceFiles(recursive, options, expiry)
  \/ ListFilesReturns
  \/ \E gitignore \in GitignoreFiles : GitignoreChanges(gitignore)

SpecListing == InitListing /\ [][NextListing]_vars

\* ---- the search_replace tool (edit-tools.ts) -----------------------------

MaxCalls == 2   \* search_replace calls in one behaviour

Calls == 1..MaxCalls

\* The modules that hold a searchReplaceInFile: tools/search-replace.ts, the
\* one edit-tools.ts names in its import, and the copy in the second half of
\* tools/search-tools.ts, which looks at the virtual store first.
SearchReplaceModules == {"search-replace", "search-tools"}

\* The messages of the errors a call can meet: the two the code throws and
\* the one of the host's file system.
ErrorMessage(failure) ==
  CASE failure = "noWorkspace" -> "No workspace folder is open"
    [] failure = "notFound" ->
         "Could not find the specified content in the file. The search content does not match any part of the file."
    [] failure = "unreadable" -> "FileSystemError"

\* A catch block that throws the error again, as the one of write_to_file.
catchErrorRethrows(failure) ==
  [ isError |-> FALSE, text |-> <<>>, escaped |-> TRUE ]

\* The catch block of the search_replace handler.
catchError(failure) ==
  [ isError |-> TRUE,
    text |-> <<"Error performing search and replace: ", ErrorMessage(failure)>>,
    escaped |-> FALSE ]

\* The result of a call that got to its end: success and final_contents.
successResult(finalContents) ==
  [ isError |-> FALSE, text |-> <<"success", finalContents>>,
    escaped |-> FALSE ]

NoResult == [ isError |-> FALSE, text |-> <<>>, escaped |-> FALSE ]

\* A call of the search_replace handler: where it is, its arguments, the
\* content it has read and the content it is about to write, whether the
\* virtual store held the path when it began, how often it has read and
\* written the file and written the virtual store, and how it ended.
NoInvocation ==
  [ pc |-> "idle", search |-> <<>>, replace |-> <<>>, copy |-> <<>>,
    modified |-> <<>>, virtualAtCall |-> FALSE, fileReads |-> 0,
    fileWrites |-> 0, virtualWrites |-> 0, failure |-> "none",
    result |-> NoResult ]

\* The call ends in the catch block.
caught(inv, failure) ==
  [inv EXCEPT !.pc = "returned", !.failure = failure,
              !.result = catchError(failure)]

\* A writeFile that applies the patch to what the file holds by then.
writeFileRebased(file, inv) ==
  [ exists |-> TRUE,
    content |-> IF file.exists
                   /\ ~applySearchReplace(file.content, inv.search,
                                          inv.replace).threw
                THEN applySearchReplace(file.content, inv.search,
                                        inv.replace).text
                ELSE inv.modified ]

\* vscode.workspace.fs.writeFile(fileUri, modifiedBuffer): the whole file.
writeFile(file, inv) == [ exists |-> TRUE, content |-> inv.modified ]

\* The handler calls searchReplaceInFile, which runs to its first await:
\* the workspace test and, in the copy of search-tools.ts, the virtual
\* store; a virtual entry is patched and stored without an await, and the
\* handler goes on to open the document of the file.
beginSearchReplace(t, inv, patched) ==
  IF ~t.hasWorkspace THEN [ virtual |-> t.virtual, inv |-> caught(inv, "noWorkspace") ]
  ELSE IF t.module = "search-tools" /\ getVirtualFile(t).defined
  THEN IF patched.threw
       THEN [ virtual |-> t.virtual, inv |-> caught(inv, "notFound") ]
       ELSE [ virtual |-> [ defined |-> TRUE, content |-> patched.text ],
              inv |-> [inv EXCEPT !.pc = "opening", !.virtualWrites = @ + 1] ]
  ELSE [ virtual |-> t.virtual, inv |-> [inv EXCEPT !.pc = "reading"] ]

\* readFile has settled: the call patches the content it has read.
afterReadFile(file, inv, patched) ==
  IF ~file.exists THEN caught(inv, "unreadable")
  ELSE IF patched.threw
  THEN caught([inv EXCEPT !.copy = file.content, !.fileReads = @ + 1],
              "notFound")
  ELSE [inv EXCEPT !.pc = "writing", !.copy = file.content,
                   !.fileReads = @ + 1, !.modified = patched.text]

\* The handler's openTextDocument(fileUri) has settled: "Get the final
\* contents"; the diagnostics follow and the result is returned.
afterOpenTextDocument(file, inv) ==
  IF ~file.exists THEN caught(inv, "unreadable")
  ELSE [inv EXCEPT !.pc = "returned", !.fileReads = @ + 1,
                   !.result = successResult(file.content)]

ToolDocument == Join(<< <<"a">>, <<"b">> >>)
ToolSearches == {<<"a">>, <<"b">>, <<"c">>}
ToolReplacements == {<<"x">>, <<"y">>}

InitTool ==
  /\ BridgeInit
  /\ patch = NoPatch
  /\ listing = NoListing
  /\ \E module \in SearchReplaceModules, hasWorkspace \in BOOLEAN,
        fileExists \in BOOLEAN, virtual \in BOOLEAN :
       tool = [ phase |-> "live", module |-> module,
                hasWorkspace |-> hasWorkspace,
                file |-> [ exists |-> fileExists,
                           content |-> IF fileExists THEN ToolDocument
                                       ELSE <<>> ],
                virtual |-> [ defined |-> virtual,
                              content |-> IF virtual THEN ToolDocument
                                          ELSE <<>> ],
                call |-> [c \in Calls |-> NoInvocation] ]

\* The tool state after call c became inv.
withCall(t, c, inv) == [t EXCEPT !.call[c] = inv]

\* The dispatcher calls the search_replace handler.
SearchReplace(c, search, replace) ==
  /\ tool.phase = "live"
  /\ tool.call[c].pc = "idle"
  /\ LET b == beginSearchReplace(tool,
                 [NoInvocation EXCEPT !.search = search, !.replace = replace,
                                      !.virtualAtCall = getVirtualFile(tool).defined],
                 applySearchReplace(getVirtualFile(tool).content, search, replace))
     IN tool' = [withCall(tool, c, b.inv) EXCEPT !.virtual = b.virtual]
  /\ UNCHANGED <<bridgeVars, patch, listing>>

\* The readFile of call c settles.
ReadFileSettles(c) ==
  /\ tool.phase = "live"
  /\ tool.call[c].pc = "reading"
  /\ tool' = withCall(tool, c,
                afterReadFile(tool.file, tool.call[c],
                              applySearchReplace(tool.file.content,
                                                 tool.call[c].search,
                                                 tool.call[c].replace)))
  /\ UNCHANGED <<bridgeVars, patch, listing>>

\* The writeFile of call c settles; the editor calls that follow (open and
\* show the document, show the diff) leave the stores as they are.
WriteFileSettles(c) ==
  /\ tool.phase = "live"
  /\ tool.call[c].pc = "writing"
  /\ tool' = [withCall(tool, c, [tool.call[c] EXCEPT !.pc = "opening",
                                                      !.fileWrites = @ + 1])
                EXCEPT !.file = writeFile(tool.file, tool.call[c])]
  /\ UNCHANGED <<bridgeVars, patch, listing>>

\* The handler's openTextDocument of call c settles and the call returns.
OpenTextDocumentSettles(c) ==
  /\ tool.phase = "live"
  /\ tool.call[c].pc = "opening"
  /\ tool' = withCall(tool, c, afterOpenTextDocument(tool.file, tool.call[c]))
  /\ UNCHANGED <<bridgeVars, patch, listing>>

\* write_to_file with ephemeral = true: setVirtualFile(path, content).
WriteToFileEphemeral(content) ==
  /\ tool.phase = "live"
  /\ tool.virtual # [ defined |-> TRUE, content |-> content ]
  /\ tool' = [tool EXCEPT !.virtual = [ defined |-> TRUE, content |-> content ]]
  /\ UNCHANGED <<bridgeVars, patch, listing>>

NextTool ==
  \/ \E c \in Calls, search \in ToolSearches, replace \in ToolReplacements :
       SearchReplace(c, search, replace)
  \/ \E c \in Calls : ReadFileSettles(c)
  \/ \E c \in Calls : WriteFileSettles(c)
  \/ \E c \in Calls : OpenTextDocumentSettles(c)
  \/ WriteToFileEphemeral(ToolDocument)

SpecTool == InitTool /\ [][NextTool]_vars

\* ---- properties ---------------------------------------------------------

Range(q) == {q[i] : i \in 1..Len(q)}
Increasing(q) == \A i, j \in 1..Len(q) : i < j => q[i] < q[j]
Count(q, m) == Cardinality({i \in 1..Len(q) : q[i] = m})

\* A step in which some socket reports "open".
OpenStep ==
  \E s \in Sockets :
    sock[s].readyState = "CONNECTING" /\ sock'[s].readyState = "OPEN"

\* A step in which the "close" handler of some socket runs.
CloseStep ==
  \E s \in Sockets :
    sock[s].readyState # "CLOSED" /\ sock'[s].readyState = "CLOSED"

\* A step in which start() makes a new socket on the same transport.
NewSocketStep ==
  /\ \E s \in Sockets :
       sock[s].readyState # "CONNECTING" /\ sock'[s].readyState = "CONNECTING"
  /\ ~(mcpServer' /\ ~mcpServer)

\* C1: the messages queued while the transport was not Open are written, in
\* the order of their send() calls, when a socket reaches Open, and so before
\* every message sent afterwards: the wire never shows a later message
\* before an earlier one, and an open step appends the whole queue.
C1_QueuedWrittenInOrderAtOpen ==
  /\ [](Increasing(wire) /\ Increasing(tp.messageQueue))
  /\ [][OpenStep => wire' = wire \o tp.messageQueue]_vars

\* C2: once the attempt counter is above the maximum no reconnect timer
\* starts a connection any more, and the give-up signal was raised exactly
\* once.
C2_GiveUpOnceAndForGood ==
  /\ [](tp.reconnectAttempts > maxReconnectAttempts => tp.signals = 1)
  /\ [][tp.reconnectAttempts > maxReconnectAttempts => ~NewSocketStep]_vars

\* C3: after close() was called on a transport it makes no new socket and is
\* never connected again.
C3_NothingAfterClose ==
  [][(tp.explicitlyClosed /\ tp'.explicitlyClosed)
       => (~NewSocketStep /\ ~tp'.connected)]_vars

\* C4: a "close" event that fires when close() was called starts no
\* reconnection: attempt counter, delay and pending timers stay as they are.
C4_CloseAfterCloseIsInert ==
  [][(CloseStep /\ tp.explicitlyClosed)
       => /\ tp'.reconnectAttempts = tp.reconnectAttempts
          /\ tp'.reconnectDelay = tp.reconnectDelay
          /\ tp'.timers = tp.timers
          /\ tp'.isReconnecting = tp.isReconnecting
          /\ tp'.signals = tp.signals]_vars

C4_Witness ==
  /\ last = "SockClose"
  /\ tp.explicitlyClosed
  /\ tp.timers = 1
  /\ tp.reconnectAttempts = 2

\* C5: when the toggleServer command raised by the give-up has run, the
\* bridge is disabled: serverEnabled is false and the transport is not
\* connected.
C5_GiveUpDisablesBridge ==
  last = "RunToggleGiveUp" => (~serverEnabled /\ ~tp.connected)

\* C6: send() without an OPEN socket appends the message to the end of the
\* queue, writes nothing and leaves every other field of the transport and
\* every socket as it is.
C6_SendWhileDownOnlyQueues ==
  [][(nextId' = nextId + 1 /\ (tp.ws = 0 \/ sock[tp.ws].readyState # "OPEN"))
       => /\ tp' = [tp EXCEPT !.messageQueue = Append(@, nextId')]
          /\ wire' = wire
          /\ sock' = sock]_vars

C6_Witness ==
  /\ last = "Send"
  /\ tp.messageQueue = <<1, 2>>
  /\ wire = <<>>
  /\ tp.reconnectAttempts = 3

\* C7: no message is written twice, and when the open handler has finished
\* the queue is empty and every message that was in it is on the wire
\* exactly once.
C7_DrainedExactlyOnceAtOpen ==
  /\ [](\A m \in 1..MaxMsgs : Count(wire, m) <= 1)
  /\ [][OpenStep => /\ tp'.messageQueue = <<>>
                    /\ \A m \in Range(tp.messageQueue) : Count(wire', m) = 1]_vars

\* C8: an unexpected close schedules a reconnection while attempts are left,
\* and no message is dropped by the outage: every message passed to send()
\* is in the queue or on the wire.
C8_OutageLosesNothing ==
  /\ [](\A m \in 1..nextId : m \in Range(tp.messageQueue) \cup Range(wire))
  /\ [][(CloseStep /\ ~tp.explicitlyClosed)
         => (tp'.isReconnecting
             \/ tp'.reconnectAttempts > maxReconnectAttempts)]_vars

\* C9: when the first socket of a transport fails before it was ever Open,
\* start() is rejected and the transport is finished: no timer is pending
\* and no further socket is made.
C9_InitialFailureIsTerminal ==
  /\ [](last = "StartRejected" => (tp.timers = 0 /\ ~tp.isReconnecting))
  /\ [][last = "StartRejected" => (tp'.timers = 0 /\ ~NewSocketStep)]_vars

\* C10: when the open handler has run, the attempt counter is 0 and the
\* backoff delay is 1000 ms.
C10_OpenResetsBackoff ==
  [][OpenStep => /\ tp'.reconnectAttempts = 0
                 /\ tp'.reconnectDelay = 1000]_vars

C10_Witness ==
  /\ last = "SockOpenReconnect"
  /\ tp.connected
  /\ tp.reconnectAttempts = 0
  /\ tp.reconnectDelay = 1000

\* 2^n.
RECURSIVE Pow2(_)
Pow2(n) == IF n = 0 THEN 1 ELSE 2 * Pow2(n - 1)

\* C11: a step that schedules a reconnect timer schedules attempt k, with k
\* in 1..20 counted from the last open, arms the timer with 1000 * 2^(k-1) ms
\* and doubles the delay afterwards; the delay is doubled in no other step.
C11_BackoffDelayOfAttempt ==
  /\ [][tp'.timers > tp.timers
         => /\ tp'.timers = tp.timers + 1
            /\ tp'.reconnectAttempts = tp.reconnectAttempts + 1
            /\ tp'.reconnectAttempts \in 1..maxReconnectAttempts
            /\ reconnectTimeout(tp) = 1000 * Pow2(tp'.reconnectAttempts - 1)
            /\ tp'.reconnectDelay = 2 * reconnectTimeout(tp)]_vars
  /\ [][tp'.reconnectDelay # tp.reconnectDelay
         => \/ tp'.timers = tp.timers + 1
            \/ tp'.reconnectDelay = 1000 /\ tp'.reconnectAttempts = 0]_vars

C11_Witness ==
  /\ last = "TimerCatch"
  /\ tp.timers = 1
  /\ tp.reconnectAttempts = 20
  /\ tp.reconnectDelay = 1000 * Pow2(20)

\* C12: an "error" event on a socket while the transport is connected is
\* reported through onerror and changes nothing else: the transport keeps
\* its socket and stays connected, no timer is scheduled, queue, attempt
\* counter and delay stay as they are, nothing is written, no start() promise
\* is settled and no command is issued.
C12_ErrorWhileOpenIsInert ==
  [][(last' = "SockError" /\ tp.connected)
       => /\ onSocketErrorReports(tp)
          /\ tp' = tp
          /\ wire' = wire
          /\ cmds' = cmds
          /\ \A s \in Sockets : /\ sock'[s].promise = sock[s].promise
                                /\ sock'[s].readyState # "CLOSED"
                                     \/ sock[s].readyState = "CLOSED"]_vars

C12_Witness ==
  /\ last = "SockError"
  /\ tp.connected
  /\ tp.ws # 0
  /\ sock[tp.ws].readyState = "OPEN"
  /\ tp.messageQueue = <<>>
  /\ wire = <<1>>

\* A step in which the "message" handler of some socket ran.
MessageStep ==
  last' \in {"SockMessage", "SockMessageThrew", "SockMessageDiscarded",
             "SockMessageEscaped"}

\* C13: a frame that is no JSON, or JSON without the tag "2.0", is discarded:
\* onmessage is not called for it (and the handler has no call of onerror),
\* and the step that discards a frame leaves the transport fields, the
\* sockets, the wire and the command queue as they are.
C13_BadFrameDiscarded ==
  /\ [](\A f \in Frames \ {"rpc"}, throws \in BOOLEAN :
          onSocketMessage(tp, f, throws) = "discarded")
  /\ [][last' = "SockMessageDiscarded"
         => /\ tp' = tp
            /\ sock' = sock
            /\ wire' = wire
            /\ cmds' = cmds]_vars

C13_Witness ==
  /\ last = "SockMessageDiscarded"
  /\ tp.onmessage
  /\ tp.connected
  /\ tp.ws # 0
  /\ sock[tp.ws].readyState = "OPEN"

\* C14: when onmessage throws, the exception stays inside the transport: the
\* step changes neither the transport nor any socket, so the connection stays
\* open; the callback stays set, and every JSON-RPC frame that arrives while
\* it is set is handed to onmessage, whatever happened before.
C14_HandlerThrowIsContained ==
  /\ [](\A throws \in BOOLEAN :
          tp.onmessage => onSocketMessage(tp, "rpc", throws) \in {"delivered", "threw"})
  /\ [][last' = "SockMessageThrew"
         => /\ tp' = tp
            /\ sock' = sock]_vars
  /\ [][MessageStep => (tp'.onmessage = tp.onmessage /\ last' # "SockMessageEscaped")]_vars

C14_Witness ==
  /\ last = "SockMessageThrew"
  /\ tp.connected
  /\ tp.ws # 0
  /\ sock[tp.ws].readyState = "OPEN"
  /\ wire = <<1, 2>>

\* The sockets of the transport that are connecting or open.
LiveSockets == {s \in Sockets : sock[s].readyState \in {"CONNECTING", "OPEN"}}

\* C15: the transport has at most one socket that is connecting or open, and
\* start() makes a new socket only when no socket is connecting or open.
C15_AtMostOneLiveSocket ==
  /\ [](Cardinality(LiveSockets) <= 1)
  /\ [][NewSocketStep => LiveSockets = {}]_vars

\* ---- properties of the search-replace engine ----------------------------

\* s holds blanks and line feeds only.
Blank(s) == \A i \in 1..Len(s) : s[i] \in {" ", "\n"}

\* The offsets at which s occurs in d.
Occurrences(d, s) ==
  {i \in 0..Len(d) :
     i + Len(s) <= Len(d) /\ \A k \in 1..Len(s) : d[i + k] = s[k]}

Least(S) == CHOOSE x \in S : \A y \in S : x <= y

\* d with the n characters from offset i on replaced by r.
ReplacedAt(d, i, n, r) == SubSeq(d, 1, i) \o r \o SubSeq(d, i + n + 1, Len(d))

\* The lines of the search text, one trailing empty line dropped.
SearchBlock(s) == dropTrailingEmpty(split(s))

\* The lines of d (counted from 0) at which a run starts whose trimmed lines
\* equal the trimmed search lines one by one.
TrimmedRuns(d, s) ==
  LET ol == split(d)
      sl == SearchBlock(s)
  IN {i \in 0..(Len(ol) - Len(sl)) :
        \A j \in 1..Len(sl) : trim(ol[i + j]) = trim(sl[j])}

\* The lines of d at which a run of the length of the search block starts
\* whose first and last trimmed lines equal those of the search block.
AnchorRuns(d, s) ==
  LET ol == split(d)
      sl == SearchBlock(s)
      n == Len(sl)
  IN {i \in 0..(Len(ol) - n) :
        /\ trim(ol[i + 1]) = trim(sl[1])
        /\ trim(ol[i + n]) = trim(sl[n])}

\* Every line followed by its terminator.
RECURSIVE Terminated(_)
Terminated(lines) ==
  IF lines = <<>> THEN <<>>
  ELSE lines[1] \o <<"\n">> \o Terminated(Tail(lines))

\* d with the n lines from line i on, terminators included, replaced by r:
\* the lines before keep their terminators, the lines after are as they were.
WithRunReplaced(d, i, n, r) ==
  LET ol == split(d) IN
  Terminated(SubSeq(ol, 1, i)) \o r
    \o (IF i + n < Len(ol) THEN Join(SubSeq(ol, i + n + 1, Len(ol))) ELSE <<>>)

\* The search text matches under none of the three tiers.
NoTierMatches(d, s) ==
  /\ Occurrences(d, s) = {}
  /\ TrimmedRuns(d, s) = {}
  /\ Len(SearchBlock(s)) < 3 \/ AnchorRuns(d, s) = {}

\* C16 (as stated): for a search text that is not empty and occurs in the
\* document, applySearchReplace returns the document with the first
\* occurrence replaced.
C16_FirstOccurrenceReplaced ==
  (patch.phase = "applied" /\ patch.search # <<>>
     /\ Occurrences(patch.doc, patch.search) # {})
    => /\ patch.outcome = "ok"
       /\ patch.text = ReplacedAt(patch.doc,
                                  Least(Occurrences(patch.doc, patch.search)),
                                  Len(patch.search), patch.repl)

\* C16 (amended): for a search text that occurs in the document and is not
\* made of whitespace only, applySearchReplace returns the document with the
\* first occurrence replaced.
C16_FirstOccurrenceReplacedUnlessBlank ==
  (patch.phase = "applied" /\ ~Blank(patch.search)
     /\ Occurrences(patch.doc, patch.search) # {})
    => /\ patch.outcome = "ok"
       /\ patch.text = ReplacedAt(patch.doc,
                                  Least(Occurrences(patch.doc, patch.search)),
                                  Len(patch.search), patch.repl)

C16_Witness ==
  /\ patch.phase = "applied"
  /\ patch.doc = Join(<< <<"a">>, <<>>, <<"a">> >>)
  /\ patch.search = <<"a">>
  /\ patch.repl = <<"x">>
  /\ patch.text = Join(<< <<"x">>, <<>>, <<"a">> >>)

\* C17: for an empty or whitespace-only search text applySearchReplace
\* returns the replacement itself, whatever the document holds.
C17_BlankSearchReplacesAll ==
  (patch.phase = "applied" /\ Blank(patch.search))
    => /\ patch.outcome = "ok"
       /\ patch.text = patch.repl

C17_Witness ==
  /\ patch.phase = "applied"
  /\ patch.search = <<" ">>
  /\ patch.doc = Join(<< <<" ", "a">>, <<"a">> >>)
  /\ patch.repl = <<"x">>
  /\ patch.text = <<"x">>

\* C18 (as stated): when the search text matches under none of the three
\* tiers, the operation ends with the content-not-found error and the stored
\* document is not written.
C18_NotFoundWritesNothing ==
  (patch.phase = "stored" /\ patch.outcome # "noWorkspace"
     /\ NoTierMatches(patch.doc, patch.search))
    => /\ patch.outcome = "notFound"
       /\ patch.writes = 0
       /\ patch.store = StoreOf(patch.doc, patch.store.virtual.defined)

\* C18 (amended): when the search text is not made of whitespace only and
\* matches under none of the three tiers, the operation ends with the
\* content-not-found error and the stored document is not written.
C18_NotFoundWritesNothingUnlessBlank ==
  (patch.phase = "stored" /\ patch.outcome # "noWorkspace"
     /\ ~Blank(patch.search) /\ NoTierMatches(patch.doc, patch.search))
    => /\ patch.outcome = "notFound"
       /\ patch.writes = 0
       /\ patch.store = StoreOf(patch.doc, patch.store.virtual.defined)

C18_Witness ==
  /\ patch.phase = "stored"
  /\ patch.outcome = "notFound"
  /\ patch.store.virtual.defined
  /\ patch.search = Join(<< <<"a">>, <<"b">>, <<"b">> >>)
  /\ patch.doc = Join(<< <<"a">>, <<>>, <<"a">> >>)
  /\ StoredDoc(patch.store) = patch.doc

\* C19 (as stated): when the search text does not occur verbatim and the
\* document has a run of lines whose trimmed contents equal the trimmed
\* search lines, the first such run, terminators included, is replaced and
\* the text before and after it is kept.
C19_TrimmedRunReplaced ==
  (patch.phase = "applied" /\ Occurrences(patch.doc, patch.search) = {}
     /\ TrimmedRuns(patch.doc, patch.search) # {})
    => /\ patch.outcome = "ok"
       /\ patch.text = WithRunReplaced(patch.doc,
                                       Least(TrimmedRuns(patch.doc, patch.search)),
                                       Len(SearchBlock(patch.search)), patch.repl)

\* C19 (amended): the same for a search text that is not made of whitespace
\* only.
C19_TrimmedRunReplacedUnlessBlank ==
  (patch.phase = "applied" /\ ~Blank(patch.search)
     /\ Occurrences(patch.doc, patch.search) = {}
     /\ TrimmedRuns(patch.doc, patch.search) # {})
    => /\ patch.outcome = "ok"
       /\ patch.text = WithRunReplaced(patch.doc,
                                       Least(TrimmedRuns(patch.doc, patch.search)),
                                       Len(SearchBlock(patch.search)), patch.repl)

C19_Witness ==
  /\ patch.phase = "applied"
  /\ patch.doc = Join(<< <<>>, <<" ", "a">>, <<" ", "a">>, <<" ", "a">> >>)
  /\ patch.search = Join(<< <<"a">>, <<"a">> >>)
  /\ patch.repl = <<"x">>
  /\ patch.text = <<"\n", "x", " ", "a">>

\* C20 (as stated): when the search text has at least 3 lines and matches
\* neither verbatim nor line by line after trimming, the first run of
\* document lines of the length of the search block whose first and last
\* trimmed lines equal those of the search block is replaced, whatever its
\* inner lines hold.
C20_AnchorRunReplaced ==
  (patch.phase = "applied" /\ Occurrences(patch.doc, patch.search) = {}
     /\ TrimmedRuns(patch.doc, patch.search) = {}
     /\ Len(SearchBlock(patch.search)) >= 3
     /\ AnchorRuns(patch.doc, patch.search) # {})
    => /\ patch.outcome = "ok"
       /\ patch.text = WithRunReplaced(patch.doc,
                                       Least(AnchorRuns(patch.doc, patch.search)),
                                       Len(SearchBlock(patch.search)), patch.repl)

\* C20 (amended): the same for a search text that is not made of whitespace
\* only.
C20_AnchorRunReplacedUnlessBlank ==
  (patch.phase = "applied" /\ ~Blank(patch.search)
     /\ Occurrences(patch.doc, patch.search) = {}
     /\ TrimmedRuns(patch.doc, patch.search) = {}
     /\ Len(SearchBlock(patch.search)) >= 3
     /\ AnchorRuns(patch.doc, patch.search) # {})
    => /\ patch.outcome = "ok"
       /\ patch.text = WithRunReplaced(patch.doc,
                                       Least(AnchorRuns(patch.doc, patch.search)),
                                       Len(SearchBlock(patch.search)), patch.repl)

C20_Witness ==
  /\ patch.phase = "applied"
  /\ patch.search = Join(<< <<"a">>, <<"b">>, <<"a">> >>)
  /\ patch.doc = Join(<< <<>>, <<"a">>, <<>>, <<"a">> >>)
  /\ patch.repl = <<"x">>
  /\ patch.text = <<"\n", "x">>

\* The tiers of applySearchReplace that give a span for d and s, in order.
ExactSpan(d, s) == findExactMatch(d, s, 0)
TrimmedSpan(d, s) == findTrimmedMatch(d, s, 0)
AnchorSpan(d, s) == findAnchorMatch(d, s, 0)

C22_SpansLieInDocument ==
  patch.phase = "matched"
    => \A t \in 1..3 :
         patch.spans[t] # <<>>
           => /\ 0 <= patch.spans[t][1]
              /\ patch.spans[t][1] <= patch.spans[t][2]
              /\ patch.spans[t][2] <= Len(patch.doc)

\* C23: when applySearchReplace succeeds on a search text that is not blank,
\* the result is the document up to the span of the tier that matched, the
\* replacement, and the document after the span, character by character.
C23_OnlyTheSpanChanges ==
  (patch.phase = "applied" /\ ~Blank(patch.search) /\ patch.outcome = "ok")
    => LET m == findMatch(patch.doc, patch.search)
           end == IF m[2] > Len(patch.doc) THEN Len(patch.doc) ELSE m[2]
       IN /\ m # <<>>
          /\ Len(patch.text) = m[1] + Len(patch.repl) + (Len(patch.doc) - end)
          /\ \A i \in 1..m[1] : patch.text[i] = patch.doc[i]
          /\ \A i \in 1..Len(patch.repl) : patch.text[m[1] + i] = patch.repl[i]
          /\ \A i \in 1..(Len(patch.doc) - end) :
               patch.text[m[1] + Len(patch.repl) + i] = patch.doc[end + i]

C23_Witness ==
  /\ patch.phase = "applied"
  /\ patch.outcome = "ok"
  /\ patch.search = Join(<< <<"a">>, <<"b">>, <<"a">> >>)
  /\ patch.doc = Join(<< <<>>, <<"a">>, <<>>, <<" ", "a">> >>)
  /\ patch.text = <<"\n", "x">>

\* C29: the span used is that of the first tier, in the order exact,
\* whitespace-tolerant, anchor, that gives one, wherever the spans of the
\* later tiers lie; without any span the call ends in content-not-found.
C29_FirstTierInOrderWins ==
  (patch.phase = "applied" /\ ~Blank(patch.search))
    => LET e == ExactSpan(patch.doc, patch.search)
           t == TrimmedSpan(patch.doc, patch.search)
           a == AnchorSpan(patch.doc, patch.search)
           Spliced(m) == SubSeq(patch.doc, 1, m[1]) \o patch.repl
                           \o SubSeq(patch.doc, m[2] + 1, Len(patch.doc))
       IN /\ e # <<>> => (patch.outcome = "ok" /\ patch.text = Spliced(e))
          /\ (e = <<>> /\ t # <<>>)
               => (patch.outcome = "ok" /\ patch.text = Spliced(t))
          /\ (e = <<>> /\ t = <<>> /\ a # <<>>)
               => (patch.outcome = "ok" /\ patch.text = Spliced(a))
          /\ (e = <<>> /\ t = <<>> /\ a = <<>>) => patch.outcome = "notFound"

\* The exact match starts at offset 4, the whitespace-tolerant run at 0.
C29_Witness ==
  /\ patch.phase = "applied"
  /\ patch.search = Join(<< <<"a">>, <<"a">> >>)
  /\ patch.doc = Join(<< <<" ", "a">>, <<" ", "a">>, <<"a">>, <<"a">> >>)
  /\ ExactSpan(patch.doc, patch.search) = <<4, 7>>
  /\ TrimmedSpan(patch.doc, patch.search)[1] = 0
  /\ patch.text = <<" ", "a", "\n", " ", "x", "\n", "a">>

\* ---- properties of the listing calls --------------------------------------

Listed == listing.phase = "listed"
TheTree == TreeOf(listing.tree)
EffectiveMaxFiles == Min(listing.call.options.maxFiles, ABSOLUTE_MAX_FILES)
EffectiveMaxDepth == Min(listing.call.options.maxDepth, ABSOLUTE_MAX_DEPTH)
Marker == truncationMarker(EffectiveMaxFiles)
MarkerAt ==
  {i \in 1..Len(listing.call.result) : listing.call.result[i] = Marker}
EndsWithMarker ==
  /\ listing.call.result # <<>>
  /\ listing.call.result[Len(listing.call.result)] = Marker
Listable == Len(listing.call.result) - Cardinality(MarkerAt)
ResultPaths ==
  {listing.call.result[i].path : i \in 1..Len(listing.call.result) \ MarkerAt}

\* The elapsed-time test failed in some directory of the call.
TimedOut ==
  listing.call.expiry.timed /\ listing.call.entered > listing.call.expiry.after

\* The entries on the paths of at most k names that start in dir.
RECURSIVE EntriesWithin(_, _, _)
RECURSIVE EntriesBelow(_, _, _, _)
EntriesBelow(fs, dir, subdirs, k) ==
  IF subdirs = {} THEN 0
  ELSE LET i == CHOOSE i \in subdirs : TRUE IN
       EntriesWithin(fs, fs[dir][i].node, k)
         + EntriesBelow(fs, dir, subdirs \ {i}, k)
EntriesWithin(fs, dir, k) ==
  IF k < 1 THEN 0
  ELSE Len(fs[dir])
         + EntriesBelow(fs, dir,
                        {i \in 1..Len(fs[dir]) :
                           itemType(fs[dir][i].type) = "directory"}, k - 1)

\* The entries below the target by path: all of them where no directory is
\* reached twice, and those a listing can reach where the graph has a cycle.
TotalEntries(fs) == EntriesWithin(fs, 1, Len(fs) + ABSOLUTE_MAX_DEPTH)

\* The patterns the call filters with, and whether they exclude an entry.
UsedPatterns ==
  IF listing.call.cacheBefore.loaded THEN listing.call.cacheBefore.patterns
  ELSE readGitignorePatterns(listing.gitignore)
Filtered(entry, entryPath) ==
  \/ itemType(entry.type) = "directory" /\ entry.name \in ALWAYS_EXCLUDED_DIRS
  \/ /\ listing.call.options.ignoreGitignore
     /\ matchesGitignorePattern(entryPath, UsedPatterns)
RootPassing ==
  {i \in 1..Len(TheTree[1]) : ~Filtered(TheTree[1][i], TheTree[1][i].name)}

Depth(path) == IF path = <<>> THEN 0 ELSE Len(splitBy(path, "/"))

\* The entries k levels below dir, each with the fact that a filter (or,
\* with ceilingBlocks, a directory above the child ceiling) lies on its path.
RECURSIVE EntriesAtDepth(_, _, _, _, _, _)
EntriesAtDepth(fs, dir, currentPath, k, blocked, ceilingBlocks) ==
  IF k < 1 THEN {}
  ELSE
    LET b == blocked
               \/ (ceilingBlocks /\ Len(fs[dir]) > MAX_IMMEDIATE_CHILDREN)
        Below(i) ==
          LET e == fs[dir][i]
              p == IF currentPath # <<>>
                   THEN currentPath \o <<"/">> \o e.name ELSE e.name
              f == b \/ Filtered(e, p)
          IN IF k = 1 THEN {[ path |-> p, blocked |-> f ]}
             ELSE IF itemType(e.type) = "directory"
             THEN EntriesAtDepth(fs, e.node, p, k - 1, f, ceilingBlocks)
             ELSE {}
    IN UNION {Below(i) : i \in 1..Len(fs[dir])}

\* C24 (as stated): a target with more entries than the effective max-files
\* gives exactly max-files + 1 elements, the last being the truncation
\* marker; with max-files above the number of entries and no timeout the
\* result has no marker.
C24_MarkerIffMoreEntriesThanMaxFiles ==
  Listed =>
    /\ Len(TheTree[1]) > EffectiveMaxFiles
         => (Len(listing.call.result) = EffectiveMaxFiles + 1 /\ EndsWithMarker)
    /\ (EffectiveMaxFiles > TotalEntries(TheTree) /\ ~TimedOut)
         => MarkerAt = {}

\* C24 (amended): a target with at most 1000 entries, of which more than the
\* effective max-files pass the filters, listed without timeout and, when
\* recursive, with an effective max depth of at least 1, gives a result that
\* ends with the truncation marker and has at least max-files + 1 elements,
\* exactly max-files + 1 when the listing is not recursive; with the
\* effective max-files above the number of entries and no timeout the result
\* has no marker.
C24_MarkerIffMoreListableThanMaxFiles ==
  Listed =>
    /\ ( /\ Len(TheTree[1]) <= MAX_IMMEDIATE_CHILDREN
         /\ Cardinality(RootPassing) > EffectiveMaxFiles
         /\ ~TimedOut
         /\ listing.call.recursive => EffectiveMaxDepth >= 1 )
         => /\ EndsWithMarker
            /\ Len(listing.call.result) >= EffectiveMaxFiles + 1
            /\ ~listing.call.recursive
                 => Len(listing.call.result) = EffectiveMaxFiles + 1
    /\ (EffectiveMaxFiles > TotalEntries(TheTree) /\ ~TimedOut)
         => MarkerAt = {}

C24_Witness ==
  /\ Listed
  /\ listing.tree = "small"
  /\ ~listing.call.recursive
  /\ listing.call.options.maxFiles = 1
  /\ listing.call.result
       = << [ path |-> <<"a">>, type |-> "file" ], truncationMarker(1) >>

\* The two halves of C25 for a recursive listing with effective max depth d:
\* nothing deeper than d is listed, and every entry at depth d that is not
\* blocked is listed when neither the count limit nor the timeout struck.
DepthRespected(ceilingBlocks) ==
  (Listed /\ listing.call.recursive) =>
    /\ \A i \in 1..Len(listing.call.result) \ MarkerAt :
         Depth(listing.call.result[i].path) <= EffectiveMaxDepth
    /\ ~listing.call.limitReached =>
         \A e \in EntriesAtDepth(TheTree, 1, <<>>, EffectiveMaxDepth, FALSE,
                                 ceilingBlocks) :
           ~e.blocked => e.path \in ResultPaths

\* C25 (as stated): in a recursive listing with effective max depth d no
\* entry at depth d + 1 or deeper is listed, and an entry at depth d is
\* listed whenever no filter, count limit or timeout excludes it.
C25_DepthLimit == DepthRespected(FALSE)

\* C25 (amended): in a recursive listing with effective max depth d no
\* entry at depth d + 1 or deeper is listed, and an entry at depth d is
\* listed whenever no filter, count limit or timeout excludes it and no
\* directory above it, the target included, has more than 1000 children.
C25_DepthLimitBelowCeiling == DepthRespected(TRUE)

C25_Witness ==
  /\ Listed
  /\ listing.tree = "deep"
  /\ listing.call.recursive
  /\ listing.call.options.maxDepth = ABSOLUTE_MAX_DEPTH + 1
  /\ ~listing.call.limitReached
  /\ Len(listing.call.result) = ABSOLUTE_MAX_DEPTH
  /\ Depth(listing.call.result[ABSOLUTE_MAX_DEPTH].path) = ABSOLUTE_MAX_DEPTH

\* What the call would list with its filters and its depth limit if neither
\* the count limit nor the timeout existed.
Uncut ==
  processTarget(
    [ fs |-> TheTree, gitignore |-> listing.gitignore,
      recursive |-> listing.call.recursive,
      ignoreGitignore |-> listing.call.options.ignoreGitignore,
      effectiveMaxDepth |-> EffectiveMaxDepth,
      effectiveMaxFiles |-> TotalEntries(TheTree) + 1,
      expiry |-> [ timed |-> FALSE, after |-> 0 ] ],
    listing.call.cacheBefore).result

\* C26: the truncation marker is the last element whenever the count limit
\* or the timeout left out entries that would have been listed; it appears
\* nowhere but as the last element, and not at all when nothing was left out.
C26_TruncationSignalledExactlyOnce ==
  Listed =>
    LET cut == Listable < Len(Uncut) IN
    /\ cut => EndsWithMarker
    /\ MarkerAt \subseteq {Len(listing.call.result)}
    /\ MarkerAt # {} => cut

\* C27: the result holds at most min(maxFiles, 500) entries besides the
\* marker, and no directory deeper than min(maxDepth, 10) is read.
C27_CeilingsHold ==
  Listed =>
    /\ Listable <= Min(listing.call.options.maxFiles, ABSOLUTE_MAX_FILES)
    /\ \A k \in 1..Len(listing.call.reads) :
         listing.call.reads[k].depth
           <= Min(listing.call.options.maxDepth, ABSOLUTE_MAX_DEPTH)

\* C28: a call reads the ignore file at most once, and what it lists is
\* filtered with the ignore file as it is at the time of the call.
C28_IgnoreFileReadPerCall ==
  (Listed /\ listing.call.options.ignoreGitignore) =>
    /\ listing.call.loads <= 1
    /\ \A i \in 1..Len(listing.call.result) \ MarkerAt :
         ~matchesGitignorePattern(listing.call.result[i].path,
                                  readGitignorePatterns(listing.gitignore))

\* C30: a directory that is read and has more than 1000 children has its
\* path exactly once in the result and nothing beneath it listed.
C30_CrowdedDirectoryListedOnce ==
  Listed =>
    \A k \in 1..Len(listing.call.reads) :
      LET read == listing.call.reads[k] IN
      Len(TheTree[read.dir]) > MAX_IMMEDIATE_CHILDREN =>
        /\ Cardinality({i \in 1..Len(listing.call.result) :
                          listing.call.result[i].path = read.path}) = 1
        /\ \A i \in 1..Len(listing.call.result) \ MarkerAt :
             /\ ~startsWith(listing.call.result[i].path, read.path \o <<"/">>)
             /\ read.path = <<>> => listing.call.result[i].path = <<>>

\* What the call had read and pushed when its elapsed-time test failed.
AtTimeout == listing.call.expired[1]

\* C31: in a call whose elapsed-time test fails, the test fails once, no
\* directory is read after it, the entries pushed before it are the first
\* entries of the result, and the result ends with the truncation marker.
C31_NothingReadAfterTimeout ==
  (Listed /\ TimedOut) =>
    /\ Len(listing.call.expired) = 1
    /\ listing.call.entered = listing.call.expiry.after + 1
    /\ Len(listing.call.reads) = AtTimeout.reads
    /\ Len(AtTimeout.pushed) < Len(listing.call.result)
    /\ SubSeq(listing.call.result, 1, Len(AtTimeout.pushed)) = AtTimeout.pushed
    /\ EndsWithMarker

C31_Witness ==
  /\ Listed /\ TimedOut
  /\ listing.tree = "small"
  /\ listing.call.recursive
  /\ AtTimeout.reads = 1
  /\ Len(AtTimeout.pushed) = 3
  /\ AtTimeout.pushed[3].path = <<"d">>
  /\ Len(listing.call.result) = 4

\* The names on a path, and the names of the directories above its entry.
Parts(path) == splitBy(path, "/")
PartsAbove(path) == SubSeq(Parts(path), 1, Len(Parts(path)) - 1)
LastPart(path) == Parts(path)[Len(Parts(path))]

\* C32 (as stated): no entry of a result has an always-excluded name, file
\* or directory, none lies beneath a child with such a name, and no
\* directory at or beneath such a child is read.
C32_ExcludedNamesNeverListed ==
  Listed =>
    /\ \A i \in 1..Len(listing.call.result) \ MarkerAt :
         \A part \in Range(Parts(listing.call.result[i].path)) :
           part \notin ALWAYS_EXCLUDED_DIRS
    /\ \A k \in 1..Len(listing.call.reads) :
         \A part \in Range(Parts(listing.call.reads[k].path)) :
           part \notin ALWAYS_EXCLUDED_DIRS

\* C32 (amended): no directory entry of a result has an always-excluded
\* name, no entry lies beneath a directory with such a name, and no
\* directory at or beneath one is read.
C32_ExcludedDirectoriesNeverListed ==
  Listed =>
    /\ \A i \in 1..Len(listing.call.result) \ MarkerAt :
         /\ listing.call.result[i].type = "directory"
              => LastPart(listing.call.result[i].path) \notin ALWAYS_EXCLUDED_DIRS
         /\ \A part \in Range(PartsAbove(listing.call.result[i].path)) :
              part \notin ALWAYS_EXCLUDED_DIRS
    /\ \A k \in 1..Len(listing.call.reads) :
         \A part \in Range(Parts(listing.call.reads[k].path)) :
           part \notin ALWAYS_EXCLUDED_DIRS

C32_Witness ==
  /\ Listed
  /\ listing.tree = "excluded"
  /\ listing.call.recursive
  /\ ~listing.call.limitReached
  /\ Len(listing.call.reads) = 2
  /\ Len(listing.call.result) = 4
  /\ listing.call.result[1] = [ path |-> <<"e", "n", "v">>, type |-> "file" ]
  /\ listing.call.result[3].path = <<"s", "/", "d", "i", "s", "t">>

\* The path of the directory that holds the entry at path.
ParentPath(path) ==
  LET slashes == {i \in 1..Len(path) : path[i] = "/"} IN
  SubSeq(path, 1, (CHOOSE i \in slashes : \A j \in slashes : j <= i) - 1)

\* C38: every entry inside a subdirectory comes after the entry of its
\* parent directory, and all entries between the two lie beneath that
\* parent: the entries beneath a directory are one block directly after it.
C38_DepthFirstPreOrder ==
  Listed =>
    \A i \in 1..Len(listing.call.result) \ MarkerAt :
      Depth(listing.call.result[i].path) >= 2 =>
        \E j \in 1..(i - 1) :
          /\ listing.call.result[j] =
               [ path |-> ParentPath(listing.call.result[i].path),
                 type |-> "directory" ]
          /\ \A k \in (j + 1)..i :
               startsWith(listing.call.result[k].path,
                          ParentPath(listing.call.result[i].path) \o <<"/">>)

C38_Witness ==
  /\ Listed
  /\ listing.tree = "small"
  /\ ~listing.call.limitReached
  /\ Len(listing.call.result) = 6
  /\ listing.call.result[3].path = <<"d">>
  /\ listing.call.result[4].path = <<"d", "/", "f">>
  /\ listing.call.result[5].path = <<"d", "/", "e">>
  /\ listing.call.result[6].path = <<"d", "/", "e", "/", "g">>

\* C39: a recursive call reads no directory at or below the effective max
\* depth, enters at most one directory more than it has counted entries,
\* hence at most the effective max files plus one, and reads none from the
\* directory on in which the elapsed-time test fails.
C39_DirectoryReadsBounded ==
  (Listed /\ listing.call.recursive) =>
    /\ \A k \in 1..Len(listing.call.reads) :
         listing.call.reads[k].depth < EffectiveMaxDepth
    /\ listing.call.fileCount <= EffectiveMaxFiles
    /\ listing.call.entered <= 1 + listing.call.fileCount
    /\ Len(listing.call.reads) <= listing.call.entered
    /\ TimedOut => Len(listing.call.reads) <= listing.call.expiry.after

C39_Witness ==
  /\ Listed
  /\ listing.tree = "cycle"
  /\ listing.call.recursive
  /\ ~listing.call.limitReached
  /\ Len(listing.call.reads) = ABSOLUTE_MAX_DEPTH
  /\ listing.call.reads[ABSOLUTE_MAX_DEPTH].dir = 1
  /\ Len(listing.call.result) = 2 * ABSOLUTE_MAX_DEPTH

\* C36: at most one reconnection timer is pending at any time, and the
\* attempt counter rises by one per failed attempt, so that it never passes
\* the value at which reconnect() gives up, the maximum plus one.
C36_OneCountAndOneTimerPerFailure ==
  /\ tp.timers <= 1
  /\ tp.reconnectAttempts <= maxReconnectAttempts + 1

\* C37: once MCPServer.start() is over, isConnectedToClient() answers true
\* whenever the transport is open, also after an error event on an open
\* connection, and it answers true when a reconnection attempt of the
\* transport has opened its socket.
C37_ServerAgreesWithTransport ==
  /\ (mcpServer /\ srv = "started" /\ mcp.start = "done"
        /\ isConnected(tp, sock))
       => isConnectedToClient(mcp, tp, sock)
  /\ (mcpServer /\ srv = "started" /\ last = "SockOpenReconnect"
        /\ isConnected(tp, sock))
       => isConnectedToClient(mcp, tp, sock)

\* ---- properties of the search_replace tool --------------------------------

\* Call c writes the file in this step.
WritesFile(c) ==
  /\ tool.phase = "live"
  /\ tool.call[c].pc = "writing"
  /\ tool'.call[c].pc = "opening"

\* C33: no call waits for another: the write of a call stores the whole
\* content that the call has patched from its own copy of the file, whatever
\* the file holds by then.
C33_WritesItsOwnCopy ==
  [][\A c \in Calls :
       WritesFile(c) =>
         /\ tool'.file.content = tool.call[c].modified
         /\ tool.call[c].modified =
              applySearchReplace(tool.call[c].copy, tool.call[c].search,
                                 tool.call[c].replace).text]_vars

\* Both calls have read the same content, both report success, and the file
\* holds the change of the second only.
C33_Witness ==
  /\ tool.phase = "live"
  /\ \A c \in {1, 2} : /\ tool.call[c].pc = "returned"
                       /\ ~tool.call[c].result.isError
                       /\ tool.call[c].copy = ToolDocument
  /\ tool.call[1].search = <<"a">> /\ tool.call[1].replace = <<"x">>
  /\ tool.call[2].search = <<"b">> /\ tool.call[2].replace = <<"y">>
  /\ tool.file.content = Join(<< <<"a">>, <<"y">> >>)

\* C34: a call that found a virtual entry for the path when it began has
\* neither read nor written the file; a call that found none has not written
\* the virtual store and, when it succeeded, has written the file once.
C34_VirtualStoreFirst ==
  tool.phase = "live" =>
    \A c \in Calls :
      /\ (tool.call[c].pc # "idle" /\ tool.call[c].virtualAtCall)
           => /\ tool.call[c].fileReads = 0
              /\ tool.call[c].fileWrites = 0
      /\ (tool.call[c].pc # "idle" /\ ~tool.call[c].virtualAtCall)
           => /\ tool.call[c].virtualWrites = 0
              /\ (tool.call[c].pc = "returned"
                    /\ tool.call[c].failure = "none")
                   => tool.call[c].fileWrites = 1

\* C35: a call that failed has returned a result flagged as an error whose
\* text names the failure, nothing was thrown out of the handler, and no
\* step of a call changes the transport, the server or the commands.
C35_FailuresAreErrorResults ==
  /\ [](tool.phase = "live" =>
          \A c \in Calls :
            tool.call[c].failure # "none" =>
              /\ tool.call[c].pc = "returned"
              /\ tool.call[c].result.isError
              /\ ~tool.call[c].result.escaped
              /\ tool.call[c].result.text =
                   <<"Error performing search and replace: ",
                     ErrorMessage(tool.call[c].failure)>>)
  /\ [](tool.phase = "live" =>
          \A c \in Calls : ~tool.call[c].result.escaped)
  /\ [][tool' # tool => UNCHANGED bridgeVars]_vars

C35_Witness ==
  /\ tool.phase = "live"
  /\ tool.call[1].failure = "notFound"
  /\ tool.call[1].result.isError
  /\ tool.call[2].failure = "unreadable"
  /\ tool.call[2].result.isError

====
